---- MODULE Spec2Model ----
(***************************************************************************)
(* Model of the shared-memory CSP channel of                               *)
(* src/src/lava/magma/compiler/channels/pypychannel.py: one CspSendPort    *)
(* and one CspRecvPort bound to the same ring of slots and to the two      *)
(* cross-process semaphores req and ack, each port with its drain thread.  *)
(* Every Python statement of send, recv, peek, probe, _ack_callback and    *)
(* _req_callback is one atomic step; the slot write and the slot copy run  *)
(* element by element, since the tensor assignment and the tensor copy are *)
(* not atomic with respect to the peer.  The model also covers start and   *)
(* join of the ports, calls on ports that were never started, a second     *)
(* call of start with the drain thread it spawns, and CspSelector.select   *)
(* with the observers and the condition variable; each of these has its    *)
(* own specification over the same variables.                              *)
(***************************************************************************)
EXTENDS Integers, Sequences, FiniteSets, TLC

\* ---------------------------------------------------------------- bounds
\* capacity of the channel (the size argument of PyPyChannel)
Size == 2
\* number of elements of one tensor (the product of proto.shape)
NElem == 2
\* number of send calls the sender issues
MaxSends == 3
\* number of peek calls the receiver issues between two recv calls
MaxPeeks == 2
\* number of second calls of start the applications issue
MaxRestarts == 1

\* element values the application fills a tensor with: two distinct values
\* tell payloads apart, the channel never looks at them
Data == {1, 2}
Slots == 0..(Size - 1)

\* the tensor the application passes to send: every element equal to d
Tensor(d) == [i \in 1..NElem |-> d]

\* whole parts of the element values of the tensors of another dtype
OtherData == {1}

\* a tensor of the proto shape and of another dtype than the proto's (floats
\* for an integer proto): every element equal to d + 1/2, written in tenths
OtherTensor(d) == [i \in 1..NElem |-> 10 * d + 5]

\* the conversion of an element of the other dtype to the proto dtype that the
\* slot assignment of line 125 performs: the fraction is cut off
Cast(x) == x \div 10

\* the element the slot assignment of line 125 stores for element x of data
Stored(dtype, x) == IF dtype = "proto" THEN x ELSE Cast(x)

\* send, line 122: data.shape != self._shape, for data of n elements
ShapeMismatch(n) == n # NElem

\* the element counts of the ill-shaped tensors the application passes
BadShapes == {NElem - 1, NElem + 1}

\* the content of the shared region before the first send
ZeroTensor == [i \in 1..NElem |-> 0]

VARIABLES
    slots,      \* the ring: slot index -> tensor (shared by both _array views)
    req, ack,   \* the two cross-process semaphores
    sidx,       \* CspSendPort._idx
    sem,        \* CspSendPort._semaphore (BoundedSemaphore) value
    spc,        \* position of the sender's application thread
    sdata,      \* the data argument of the send in progress (zero outside send)
    sw,         \* elements of the slot written so far by the send in progress
    sdtype,     \* dtype of the data argument: "proto" or "other"
    serr,       \* error raised by the last call of the sender's thread, or "none"
    sprobe,     \* value returned by the last probe of the sender's thread
    apc,        \* position of the ack-drain thread (_ack_callback)
    anotfull,   \* not_full local of _ack_callback
    ridx,       \* CspRecvPort._idx
    queue,      \* CspRecvPort._queue (CspRecvQueue) content
    rpc,        \* position of the receiver's application thread
    rbuf,       \* elements copied so far by the recv or peek in progress
    qpc,        \* position of the req-drain thread (_req_callback)
    qnotempty,  \* not_empty local of _req_callback
    sent,       \* history: payloads of the completed sends, in order
    rcvd,       \* history: payloads returned by the completed recvs, in order
    peeks,      \* history: payloads returned by the peeks since the last recv
    sstarted,   \* CspSendPort.start was called (_semaphore is not None)
    rstarted,   \* CspRecvPort.start was called (_queue is not None)
    sdone,      \* CspSendPort._done
    rdone,      \* CspRecvPort._done
    rerr,       \* error raised by the last call of the receiver's thread
    apc2,       \* position of the ack-drain thread of a second start, or "none"
    anotfull2,  \* not_full local of that thread
    qpc2,       \* position of the req-drain thread of a second start, or "none"
    qnotempty2, \* not_empty local of that thread
    selpc,      \* position of the thread inside CspSelector.select
    sellist,    \* the ports of the (port, action) pairs given to select
    seli,       \* index of the pair the loop of select or _set_observer is at
    selscan,    \* history: probe results of the current scan, in list order
    selres,     \* index of the pair whose action the last select invoked, or 0
    selerr,     \* error raised by the last select, or "none"
    selready,   \* history: a listed port was ready when select was called
    sobs,       \* CspSendPort.observer is set (to CspSelector._changed)
    robs,       \* CspRecvPort.observer is set (to CspSelector._changed)
    cvowner,    \* thread holding the lock of CspSelector._cv, or "none"
    call        \* the last call made on a CspRecvQueue or on a constructor:
                \* its arguments, its result and the error it raised

vars == <<slots, req, ack, sidx, sem, spc, sdata, sw, sdtype, serr, sprobe,
          apc, anotfull,
          ridx, queue, rpc, rbuf, qpc, qnotempty,
          sent, rcvd, peeks,
          sstarted, rstarted, sdone, rdone, rerr,
          apc2, anotfull2, qpc2, qnotempty2,
          selpc, sellist, seli, selscan, selres, selerr, selready,
          sobs, robs, cvowner, call>>

sendVars == <<sidx, spc, sdata, sw, sdtype, serr, sprobe>>
\* what a call of the sender's thread was given and what it gave back
sargVars == <<sdtype, serr, sprobe>>
ackVars  == <<apc, anotfull>>
recvVars == <<ridx, rpc, rbuf>>
reqVars  == <<qpc, qnotempty>>
histVars == <<sent, rcvd, peeks>>
lifeVars == <<sstarted, rstarted, sdone, rdone, rerr>>
thr2Vars == <<apc2, anotfull2, qpc2, qnotempty2>>
selVars  == <<selpc, sellist, seli, selscan, selres, selerr, selready,
              sobs, robs, cvowner>>
\* the arguments, locals and results of a select call
selLocals == <<sellist, seli, selscan, selres, selerr, selready>>
obsVars  == <<sobs, robs>>
chanVars == <<slots, req, ack, sem, queue>>
\* what the steps of send, recv, peek, probe and of the first iterations of
\* the drain loops leave alone
extVars  == <<lifeVars, thr2Vars, selVars, call>>

\* ------------------------------------------------------------ construction
\* no call made yet on a CspRecvQueue or on a constructor
NoCall == [op |-> "none"]

\* the state of the parts both constructions share: no second thread, no
\* select in progress, no observer, the lock of the condition variable free

InitExt ==
    /\ call = NoCall
    /\ sdone = FALSE
    /\ rdone = FALSE
    /\ rerr = "none"
    /\ apc2 = "none"
    /\ anotfull2 = FALSE
    /\ qpc2 = "none"
    /\ qnotempty2 = FALSE
    /\ selpc = "idle"
    /\ sellist = <<>>
    /\ seli = 0
    /\ selscan = <<>>
    /\ selres = 0
    /\ selerr = "none"
    /\ selready = FALSE
    /\ sobs = FALSE
    /\ robs = FALSE
    /\ cvowner = "none"

\* the state after PyPyChannel.__init__, before start() of either port: no
\* BoundedSemaphore, no queue and no drain thread yet
InitNew ==
    /\ slots = [i \in Slots |-> ZeroTensor]
    /\ req = 0
    /\ ack = 0
    /\ sidx = 0
    /\ sem = 0
    /\ spc = "idle"
    /\ sdata = ZeroTensor
    /\ sw = 0
    /\ sdtype = "proto"
    /\ serr = "none"
    /\ sprobe = "none"
    /\ apc = "none"
    /\ anotfull = FALSE
    /\ ridx = 0
    /\ queue = <<>>
    /\ rpc = "idle"
    /\ rbuf = <<>>
    /\ qpc = "none"
    /\ qnotempty = FALSE
    /\ sent = <<>>
    /\ rcvd = <<>>
    /\ peeks = <<>>
    /\ sstarted = FALSE
    /\ rstarted = FALSE
    /\ InitExt

\* the state after PyPyChannel.__init__ and start() of both ports, each drain
\* thread having passed its first loop test
Init ==
    /\ slots = [i \in Slots |-> ZeroTensor]
    /\ req = 0
    /\ ack = 0
    /\ sidx = 0
    /\ sem = Size
    /\ spc = "idle"
    /\ sdata = ZeroTensor
    /\ sw = 0
    /\ sdtype = "proto"
    /\ serr = "none"
    /\ sprobe = "none"
    /\ apc = "wait"
    /\ anotfull = FALSE
    /\ ridx = 0
    /\ queue = <<>>
    /\ rpc = "idle"
    /\ rbuf = <<>>
    /\ qpc = "wait"
    /\ qnotempty = FALSE
    /\ sent = <<>>
    /\ rcvd = <<>>
    /\ peeks = <<>>
    /\ sstarted = TRUE
    /\ rstarted = TRUE
    /\ InitExt

\* ------------------------------------------------------------- CspSendPort
\* send, line 122: the shape test passes and the thread reaches the acquire
SendCall ==
    /\ spc = "idle"
    /\ selpc = "idle"
    /\ Len(sent) < MaxSends
    /\ \E d \in Data : sdata' = Tensor(d)
    /\ spc' = "acquire"
    /\ sdtype' = "proto"
    /\ serr' = "none"
    /\ sprobe' = "none"
    /\ UNCHANGED <<slots, req, ack, sidx, sem, sw>>
    /\ UNCHANGED <<ackVars, recvVars, queue, reqVars, histVars>>
    /\ UNCHANGED extVars

\* send, line 122, called with the tensor of ones by an application whose
\* payloads are all alike
SendCallOnes ==
    /\ spc = "idle"
    /\ selpc = "idle"
    /\ Len(sent) < MaxSends
    /\ sdata' = Tensor(1)
    /\ spc' = "acquire"
    /\ sdtype' = "proto"
    /\ serr' = "none"
    /\ sprobe' = "none"
    /\ UNCHANGED <<slots, req, ack, sidx, sem, sw>>
    /\ UNCHANGED <<ackVars, recvVars, queue, reqVars, histVars>>
    /\ UNCHANGED extVars

\* send is called with a tensor whose shape differs from the proto shape
SendCallBadShape ==
    /\ spc = "idle"
    /\ selpc = "idle"
    /\ \E n \in BadShapes : sdata' = [i \in 1..n |-> 1]
    /\ spc' = "shape_test"
    /\ sdtype' = "proto"
    /\ serr' = "none"
    /\ sprobe' = "none"
    /\ UNCHANGED <<slots, req, ack, sidx, sem, sw>>
    /\ UNCHANGED <<ackVars, recvVars, queue, reqVars, histVars>>
    /\ UNCHANGED extVars

\* variant of SendBadShape: the permit is taken before the shape is tested
SendBadShape_Late ==
    /\ spc = "shape_test"
    /\ ShapeMismatch(Len(sdata))
    /\ sem > 0
    /\ sem' = sem - 1
    /\ serr' = "AssertionError"
    /\ sdata' = ZeroTensor
    /\ spc' = "idle"
    /\ UNCHANGED <<slots, req, ack, sidx, sw, sdtype, sprobe>>
    /\ UNCHANGED <<ackVars, recvVars, queue, reqVars, histVars>>
    /\ UNCHANGED extVars

\* send, lines 122-123: the shape of data differs from the proto shape and
\* send raises AssertionError
SendBadShape ==
    /\ spc = "shape_test"
    /\ ShapeMismatch(Len(sdata))
    /\ serr' = "AssertionError"
    /\ sdata' = ZeroTensor
    /\ spc' = "idle"
    /\ UNCHANGED <<slots, req, ack, sidx, sem, sw, sdtype, sprobe>>
    /\ UNCHANGED <<ackVars, recvVars, queue, reqVars, histVars>>
    /\ UNCHANGED extVars

\* send, line 122, called with data of the proto shape and of another dtype:
\* only the shape is tested, so the thread reaches the acquire
SendCallOtherDtype ==
    /\ spc = "idle"
    /\ selpc = "idle"
    /\ Len(sent) < MaxSends
    /\ ~ShapeMismatch(NElem)
    /\ \E d \in OtherData : sdata' = OtherTensor(d)
    /\ spc' = "acquire"
    /\ sdtype' = "other"
    /\ serr' = "none"
    /\ sprobe' = "none"
    /\ UNCHANGED <<slots, req, ack, sidx, sem, sw>>
    /\ UNCHANGED <<ackVars, recvVars, queue, reqVars, histVars>>
    /\ UNCHANGED extVars

\* variant of SendAcquire: the acquire does not block (blocking=False, result
\* ignored), so the write goes ahead without a permit
SendAcquire_NoWait ==
    /\ spc = "acquire"
    /\ sstarted
    /\ sem' = IF sem > 0 THEN sem - 1 ELSE sem
    /\ sw' = 0
    /\ spc' = "write"
    /\ UNCHANGED <<slots, req, ack, sidx, sdata>>
    /\ UNCHANGED <<ackVars, recvVars, queue, reqVars, histVars>>
    /\ UNCHANGED sargVars
    /\ UNCHANGED extVars

\* send, line 124: self._semaphore.acquire() blocks while no permit is left
SendAcquire ==
    /\ spc = "acquire"
    /\ sstarted
    /\ sem > 0
    /\ sem' = sem - 1
    /\ sw' = 0
    /\ spc' = "write"
    /\ UNCHANGED <<slots, req, ack, sidx, sdata>>
    /\ UNCHANGED <<ackVars, recvVars, queue, reqVars, histVars>>
    /\ UNCHANGED sargVars
    /\ UNCHANGED extVars

\* send, line 125: one element of self._array[self._idx][:] = data[:]
SendWrite ==
    /\ spc = "write"
    /\ slots' = [slots EXCEPT ![sidx][sw + 1] = Stored(sdtype, sdata[sw + 1])]
    /\ sw' = sw + 1
    /\ spc' = IF sw + 1 = NElem THEN "advance" ELSE "write"
    /\ UNCHANGED <<req, ack, sidx, sem, sdata>>
    /\ UNCHANGED <<ackVars, recvVars, queue, reqVars, histVars>>
    /\ UNCHANGED sargVars
    /\ UNCHANGED extVars

\* variant of SendAdvance: the index is not advanced
SendAdvance_Stuck ==
    /\ spc = "advance"
    /\ sidx' = sidx
    /\ spc' = "release"
    /\ UNCHANGED <<slots, req, ack, sem, sdata, sw>>
    /\ UNCHANGED <<ackVars, recvVars, queue, reqVars, histVars>>
    /\ UNCHANGED sargVars
    /\ UNCHANGED extVars

\* variant of SendAdvance: req is released where idx should advance
SendAdvance_Signal ==
    /\ spc = "advance"
    /\ req' = req + 1
    /\ spc' = "release"
    /\ UNCHANGED <<slots, ack, sidx, sem, sdata, sw>>
    /\ UNCHANGED <<ackVars, recvVars, queue, reqVars, histVars>>
    /\ UNCHANGED sargVars
    /\ UNCHANGED extVars

\* send, line 126: self._idx = (self._idx + 1) % self._size
SendAdvance ==
    /\ spc = "advance"
    /\ sidx' = (sidx + 1) % Size
    /\ spc' = "release"
    /\ UNCHANGED <<slots, req, ack, sem, sdata, sw>>
    /\ UNCHANGED <<ackVars, recvVars, queue, reqVars, histVars>>
    /\ UNCHANGED sargVars
    /\ UNCHANGED extVars

\* variant of SendRelease: req is released twice
SendRelease_Twice ==
    /\ spc = "release"
    /\ req' = req + 2
    /\ sent' = Append(sent, sdata)
    /\ spc' = "idle"
    /\ sdata' = ZeroTensor
    /\ sw' = 0
    /\ sdtype' = "proto"
    /\ UNCHANGED <<serr, sprobe>>
    /\ UNCHANGED <<slots, ack, sidx, sem>>
    /\ UNCHANGED <<ackVars, recvVars, queue, reqVars>>
    /\ UNCHANGED <<rcvd, peeks>>
    /\ UNCHANGED extVars

\* send, line 127: self._req.release(), then send returns and its argument
\* goes out of scope
SendRelease ==
    /\ spc = "release"
    /\ req' = req + 1
    /\ sent' = Append(sent, sdata)
    /\ spc' = "idle"
    /\ sdata' = ZeroTensor
    /\ sw' = 0
    /\ sdtype' = "proto"
    /\ UNCHANGED <<serr, sprobe>>
    /\ UNCHANGED <<slots, ack, sidx, sem>>
    /\ UNCHANGED <<ackVars, recvVars, queue, reqVars>>
    /\ UNCHANGED <<rcvd, peeks>>
    /\ UNCHANGED extVars

\* probe called by the application, line 113: acquire(blocking=False) takes
\* a permit
SendProbeAcquire ==
    /\ spc = "idle"
    /\ selpc = "idle"
    /\ sstarted
    /\ sem > 0
    /\ sem' = sem - 1
    /\ spc' = "probe"
    /\ serr' = "none"
    /\ sprobe' = "none"
    /\ UNCHANGED sdtype
    /\ UNCHANGED <<slots, req, ack, sidx, sdata, sw>>
    /\ UNCHANGED <<ackVars, recvVars, queue, reqVars, histVars>>
    /\ UNCHANGED extVars

\* probe called by the application, lines 113-116: acquire(blocking=False)
\* finds no permit and probe returns False
SendProbeFail ==
    /\ spc = "idle"
    /\ selpc = "idle"
    /\ sstarted
    /\ sem = 0
    /\ sprobe' = "false"
    /\ serr' = "none"
    /\ UNCHANGED <<slots, req, ack, sidx, sem, spc, sdata, sw, sdtype>>
    /\ UNCHANGED <<ackVars, recvVars, queue, reqVars, histVars>>
    /\ UNCHANGED extVars

\* variant of SendProbeRelease: probe keeps the permit it took
SendProbeRelease_Keep ==
    /\ spc = "probe"
    /\ sem' = sem
    /\ spc' = "idle"
    /\ sprobe' = "true"
    /\ UNCHANGED <<sdtype, serr>>
    /\ UNCHANGED <<slots, req, ack, sidx, sdata, sw>>
    /\ UNCHANGED <<ackVars, recvVars, queue, reqVars, histVars>>
    /\ UNCHANGED extVars

\* probe called by the application, lines 115-116: the permit is given back
\* and probe returns True; a release of the BoundedSemaphore above its
\* initial value raises ValueError to the caller
SendProbeRelease ==
    /\ spc = "probe"
    /\ IF sem < Size
       THEN /\ sem' = sem + 1
            /\ sprobe' = "true"
            /\ serr' = serr
       ELSE /\ sem' = sem
            /\ sprobe' = "none"
            /\ serr' = "ValueError"
    /\ spc' = "idle"
    /\ UNCHANGED sdtype
    /\ UNCHANGED <<slots, req, ack, sidx, sdata, sw>>
    /\ UNCHANGED <<ackVars, recvVars, queue, reqVars, histVars>>
    /\ UNCHANGED extVars

\* variant of AckAcquire: the loop does not wait for an ack
AckAcquire_NoWait ==
    /\ apc = "wait"
    /\ ack' = ack
    /\ apc' = "probe"
    /\ UNCHANGED <<slots, req, sem, anotfull>>
    /\ UNCHANGED <<sendVars, recvVars, queue, reqVars, histVars>>
    /\ UNCHANGED extVars

\* _ack_callback, line 100: self._ack.acquire()
AckAcquire ==
    /\ apc = "wait"
    /\ ack > 0
    /\ ack' = ack - 1
    /\ apc' = "probe"
    /\ UNCHANGED <<slots, req, sem, anotfull>>
    /\ UNCHANGED <<sendVars, recvVars, queue, reqVars, histVars>>
    /\ UNCHANGED extVars

\* variant of AckProbeAcquire: probe gives a permit back also when it took
\* none
AckProbeAcquire_Finally ==
    /\ apc = "probe"
    /\ IF sem > 0
       THEN /\ sem' = sem - 1
            /\ anotfull' = TRUE
       ELSE /\ sem' = sem
            /\ anotfull' = FALSE
    /\ apc' = "probe_release"
    /\ UNCHANGED <<slots, req, ack>>
    /\ UNCHANGED <<sendVars, recvVars, queue, reqVars, histVars>>
    /\ UNCHANGED extVars

\* _ack_callback, line 101 (probe, line 113): not_full = self.probe(),
\* the non-blocking acquire; without a permit probe returns False at once
AckProbeAcquire ==
    /\ apc = "probe"
    /\ IF sem > 0
       THEN /\ sem' = sem - 1
            /\ anotfull' = TRUE
            /\ apc' = "probe_release"
       ELSE /\ sem' = sem
            /\ anotfull' = FALSE
            /\ apc' = "release"
    /\ UNCHANGED <<slots, req, ack>>
    /\ UNCHANGED <<sendVars, recvVars, queue, reqVars, histVars>>
    /\ UNCHANGED extVars

\* _ack_callback, line 101 (probe, line 115): probe gives the permit back;
\* a release of the BoundedSemaphore above its initial value raises
\* ValueError, which ends the thread
AckProbeRelease ==
    /\ apc = "probe_release"
    /\ IF sem < Size
       THEN /\ sem' = sem + 1
            /\ apc' = "release"
       ELSE /\ sem' = sem
            /\ apc' = "crashed"
    /\ UNCHANGED <<slots, req, ack, anotfull>>
    /\ UNCHANGED <<sendVars, recvVars, queue, reqVars, histVars>>
    /\ UNCHANGED extVars

\* variant of AckRelease: the permit is not given back
AckRelease_Lost ==
    /\ apc = "release"
    /\ sem' = sem
    /\ apc' = "observe"
    /\ UNCHANGED <<slots, req, ack, anotfull>>
    /\ UNCHANGED <<sendVars, recvVars, queue, reqVars, histVars>>
    /\ UNCHANGED extVars

\* _ack_callback, line 102: self._semaphore.release(); a release of the
\* BoundedSemaphore above its initial value raises ValueError, which ends
\* the thread
AckRelease ==
    /\ apc = "release"
    /\ IF sem < Size
       THEN /\ sem' = sem + 1
            /\ apc' = "observe"
       ELSE /\ sem' = sem
            /\ apc' = "crashed"
    /\ UNCHANGED <<slots, req, ack, anotfull>>
    /\ UNCHANGED <<sendVars, recvVars, queue, reqVars, histVars>>
    /\ UNCHANGED extVars

\* _ack_callback, line 103: if self.observer and not not_full
AckObserve ==
    /\ apc = "observe"
    /\ apc' = IF sobs /\ ~anotfull THEN "call" ELSE "test"
    /\ UNCHANGED <<chanVars, anotfull>>
    /\ UNCHANGED <<sendVars, recvVars, reqVars, histVars>>
    /\ UNCHANGED extVars

\* _ack_callback, line 104: self.observer() reads the attribute again; calling
\* None raises TypeError, which ends the thread
AckCall ==
    /\ apc = "call"
    /\ apc' = IF sobs THEN "lock" ELSE "crashed"
    /\ UNCHANGED <<chanVars, anotfull>>
    /\ UNCHANGED <<sendVars, recvVars, reqVars, histVars>>
    /\ UNCHANGED extVars

\* _changed called by the ack-drain thread, line 286: with self._cv waits for
\* the lock of the condition variable
AckLock ==
    /\ apc = "lock"
    /\ cvowner = "none"
    /\ cvowner' = "ack"
    /\ apc' = "notify"
    /\ UNCHANGED <<chanVars, anotfull>>
    /\ UNCHANGED <<sendVars, recvVars, reqVars, histVars>>
    /\ UNCHANGED <<lifeVars, thr2Vars, selpc, selLocals, obsVars>>
    /\ UNCHANGED call

\* _changed called by the ack-drain thread, line 287: notify_all wakes the
\* select waiting on the condition variable, then the with block gives the
\* lock back
AckNotify ==
    /\ apc = "notify"
    /\ selpc' = IF selpc = "waiting" THEN "woken" ELSE selpc
    /\ cvowner' = "none"
    /\ apc' = "test"
    /\ UNCHANGED <<chanVars, anotfull>>
    /\ UNCHANGED <<sendVars, recvVars, reqVars, histVars>>
    /\ UNCHANGED <<lifeVars, thr2Vars, selLocals, obsVars>>
    /\ UNCHANGED call

\* variant of AckTest: the loop does not look at the done flag
AckTest_Ignore ==
    /\ apc = "test"
    /\ apc' = "wait"
    /\ UNCHANGED <<chanVars, anotfull>>
    /\ UNCHANGED <<sendVars, recvVars, reqVars, histVars>>
    /\ UNCHANGED extVars

\* _ack_callback, line 99: while not self._done
AckTest ==
    /\ apc = "test"
    /\ apc' = IF sdone THEN "exited" ELSE "wait"
    /\ UNCHANGED <<chanVars, anotfull>>
    /\ UNCHANGED <<sendVars, recvVars, reqVars, histVars>>
    /\ UNCHANGED extVars

\* ------------------------------------------------------------- CspRecvPort
\* CspRecvPort.probe, line 250
RecvProbe == Len(queue) > 0

\* _req_callback, line 237: self._req.acquire()
ReqAcquire ==
    /\ qpc = "wait"
    /\ req > 0
    /\ req' = req - 1
    /\ qpc' = "probe"
    /\ UNCHANGED <<slots, ack, sem, queue, qnotempty>>
    /\ UNCHANGED <<sendVars, ackVars, recvVars, histVars>>
    /\ UNCHANGED extVars

\* _req_callback, line 238: not_empty = self.probe()
ReqProbe ==
    /\ qpc = "probe"
    /\ qnotempty' = RecvProbe
    /\ qpc' = "put"
    /\ UNCHANGED <<slots, req, ack, sem, queue>>
    /\ UNCHANGED <<sendVars, ackVars, recvVars, histVars>>
    /\ UNCHANGED extVars

\* _req_callback, line 239: self._queue.put_nowait(0); a full queue raises
\* Full, which ends the thread
ReqPut ==
    /\ qpc = "put"
    /\ IF Len(queue) < Size
       THEN /\ queue' = Append(queue, 0)
            /\ qpc' = "observe"
       ELSE /\ queue' = queue
            /\ qpc' = "crashed"
    /\ UNCHANGED <<slots, req, ack, sem, qnotempty>>
    /\ UNCHANGED <<sendVars, ackVars, recvVars, histVars>>
    /\ UNCHANGED extVars

\* _req_callback, line 240: if self.observer and not not_empty
ReqObserve ==
    /\ qpc = "observe"
    /\ qpc' = IF robs /\ ~qnotempty THEN "call" ELSE "test"
    /\ UNCHANGED <<chanVars, qnotempty>>
    /\ UNCHANGED <<sendVars, ackVars, recvVars, histVars>>
    /\ UNCHANGED extVars

\* _req_callback, line 241: self.observer() reads the attribute again; calling
\* None raises TypeError, which ends the thread
ReqCall ==
    /\ qpc = "call"
    /\ qpc' = IF robs THEN "lock" ELSE "crashed"
    /\ UNCHANGED <<chanVars, qnotempty>>
    /\ UNCHANGED <<sendVars, ackVars, recvVars, histVars>>
    /\ UNCHANGED extVars

\* _changed called by the req-drain thread, line 286: with self._cv waits for
\* the lock of the condition variable
ReqLock ==
    /\ qpc = "lock"
    /\ cvowner = "none"
    /\ cvowner' = "req"
    /\ qpc' = "notify"
    /\ UNCHANGED <<chanVars, qnotempty>>
    /\ UNCHANGED <<sendVars, ackVars, recvVars, histVars>>
    /\ UNCHANGED <<lifeVars, thr2Vars, selpc, selLocals, obsVars>>
    /\ UNCHANGED call

\* _changed called by the req-drain thread, line 287: notify_all wakes the
\* select waiting on the condition variable, then the with block gives the
\* lock back
ReqNotify ==
    /\ qpc = "notify"
    /\ selpc' = IF selpc = "waiting" THEN "woken" ELSE selpc
    /\ cvowner' = "none"
    /\ qpc' = "test"
    /\ UNCHANGED <<chanVars, qnotempty>>
    /\ UNCHANGED <<sendVars, ackVars, recvVars, histVars>>
    /\ UNCHANGED <<lifeVars, thr2Vars, selLocals, obsVars>>
    /\ UNCHANGED call

\* _req_callback, line 236: while not self._done
ReqTest ==
    /\ qpc = "test"
    /\ qpc' = IF rdone THEN "exited" ELSE "wait"
    /\ UNCHANGED <<chanVars, qnotempty>>
    /\ UNCHANGED <<sendVars, ackVars, recvVars, histVars>>
    /\ UNCHANGED extVars

\* recv is called: the thread reaches self._queue.get(), line 265
RecvCall ==
    /\ rpc = "idle"
    /\ selpc = "idle"
    /\ rpc' = "get"
    /\ UNCHANGED <<slots, req, ack, sem, queue, ridx, rbuf>>
    /\ UNCHANGED <<sendVars, ackVars, reqVars, histVars>>
    /\ UNCHANGED extVars

\* variant of RecvGet: ack is released as soon as the token is dequeued,
\* before the slot is copied
RecvGet_EarlyAck ==
    /\ rpc = "get"
    /\ rstarted
    /\ Len(queue) > 0
    /\ queue' = Tail(queue)
    /\ ack' = ack + 1
    /\ rbuf' = <<>>
    /\ rpc' = "copy"
    /\ UNCHANGED <<slots, req, sem, ridx>>
    /\ UNCHANGED <<sendVars, ackVars, reqVars, histVars>>
    /\ UNCHANGED extVars

\* CspRecvQueue.get(block=True, timeout=None, peek=False), lines 147-149 and
\* 162: waits while the queue is empty, then removes the head
RecvGet ==
    /\ rpc = "get"
    /\ rstarted
    /\ Len(queue) > 0
    /\ queue' = Tail(queue)
    /\ rbuf' = <<>>
    /\ rpc' = "copy"
    /\ UNCHANGED <<slots, req, ack, sem, ridx>>
    /\ UNCHANGED <<sendVars, ackVars, reqVars, histVars>>
    /\ UNCHANGED extVars

\* recv, line 266: one element of self._array[self._idx].copy()
RecvCopy ==
    /\ rpc = "copy"
    /\ rbuf' = Append(rbuf, slots[ridx][Len(rbuf) + 1])
    /\ rpc' = IF Len(rbuf) + 1 = NElem THEN "advance" ELSE "copy"
    /\ UNCHANGED <<slots, req, ack, sem, queue, ridx>>
    /\ UNCHANGED <<sendVars, ackVars, reqVars, histVars>>
    /\ UNCHANGED extVars

\* variant of RecvAdvance: the index is advanced without the modulo
RecvAdvance_NoWrap ==
    /\ rpc = "advance"
    /\ ridx' = ridx + 1
    /\ rpc' = "release"
    /\ UNCHANGED <<slots, req, ack, sem, queue, rbuf>>
    /\ UNCHANGED <<sendVars, ackVars, reqVars, histVars>>
    /\ UNCHANGED extVars

\* recv, line 267: self._idx = (self._idx + 1) % self._size
RecvAdvance ==
    /\ rpc = "advance"
    /\ ridx' = (ridx + 1) % Size
    /\ rpc' = "release"
    /\ UNCHANGED <<slots, req, ack, sem, queue, rbuf>>
    /\ UNCHANGED <<sendVars, ackVars, reqVars, histVars>>
    /\ UNCHANGED extVars

\* recv, lines 268-270: self._ack.release(), then recv returns the copy and
\* its local goes out of scope
RecvRelease ==
    /\ rpc = "release"
    /\ ack' = ack + 1
    /\ rcvd' = Append(rcvd, rbuf)
    /\ peeks' = <<>>
    /\ rpc' = "idle"
    /\ rbuf' = <<>>
    /\ UNCHANGED <<slots, req, sem, queue, ridx>>
    /\ UNCHANGED <<sendVars, ackVars, reqVars, sent>>
    /\ UNCHANGED extVars

\* peek is called: the thread reaches self._queue.get(peek=True), line 257
PeekCall ==
    /\ rpc = "idle"
    /\ selpc = "idle"
    /\ Len(peeks) < MaxPeeks
    /\ rpc' = "peek_get"
    /\ UNCHANGED <<slots, req, ack, sem, queue, ridx, rbuf>>
    /\ UNCHANGED <<sendVars, ackVars, reqVars, histVars>>
    /\ UNCHANGED extVars

\* variant of PeekGet: the peek flag is ignored and the head is removed
PeekGet_Destructive ==
    /\ rpc = "peek_get"
    /\ rstarted
    /\ Len(queue) > 0
    /\ queue' = Tail(queue)
    /\ rbuf' = <<>>
    /\ rpc' = "peek_copy"
    /\ UNCHANGED <<slots, req, ack, sem, ridx>>
    /\ UNCHANGED <<sendVars, ackVars, reqVars, histVars>>
    /\ UNCHANGED extVars

\* CspRecvQueue.get(block=True, timeout=None, peek=True), lines 147-149 and
\* 160: waits while the queue is empty, then reads the head in place
PeekGet ==
    /\ rpc = "peek_get"
    /\ rstarted
    /\ Len(queue) > 0
    /\ rbuf' = <<>>
    /\ rpc' = "peek_copy"
    /\ UNCHANGED <<slots, req, ack, sem, queue, ridx>>
    /\ UNCHANGED <<sendVars, ackVars, reqVars, histVars>>
    /\ UNCHANGED extVars

\* variant of PeekCopy: peek advances the index like recv does
PeekCopy_Advance ==
    /\ rpc = "peek_copy"
    /\ IF Len(rbuf) + 1 = NElem
       THEN /\ rpc' = "idle"
            /\ peeks' = Append(peeks, Append(rbuf, slots[ridx][Len(rbuf) + 1]))
            /\ rbuf' = <<>>
            /\ ridx' = (ridx + 1) % Size
       ELSE /\ rpc' = "peek_copy"
            /\ rbuf' = Append(rbuf, slots[ridx][Len(rbuf) + 1])
            /\ peeks' = peeks
            /\ ridx' = ridx
    /\ UNCHANGED <<slots, req, ack, sem, queue>>
    /\ UNCHANGED <<sendVars, ackVars, reqVars, sent, rcvd>>
    /\ UNCHANGED extVars

\* variant of PeekCopy: peek releases ack like recv does
PeekCopy_Ack ==
    /\ rpc = "peek_copy"
    /\ IF Len(rbuf) + 1 = NElem
       THEN /\ rpc' = "idle"
            /\ peeks' = Append(peeks, Append(rbuf, slots[ridx][Len(rbuf) + 1]))
            /\ rbuf' = <<>>
            /\ ack' = ack + 1
       ELSE /\ rpc' = "peek_copy"
            /\ rbuf' = Append(rbuf, slots[ridx][Len(rbuf) + 1])
            /\ peeks' = peeks
            /\ ack' = ack
    /\ UNCHANGED <<slots, req, sem, queue, ridx>>
    /\ UNCHANGED <<sendVars, ackVars, reqVars, sent, rcvd>>
    /\ UNCHANGED extVars

\* peek, lines 258-259: one element of self._array[self._idx].copy(); after
\* the last element peek returns the copy
PeekCopy ==
    /\ rpc = "peek_copy"
    /\ IF Len(rbuf) + 1 = NElem
       THEN /\ rpc' = "idle"
            /\ peeks' = Append(peeks, Append(rbuf, slots[ridx][Len(rbuf) + 1]))
            /\ rbuf' = <<>>
       ELSE /\ rpc' = "peek_copy"
            /\ rbuf' = Append(rbuf, slots[ridx][Len(rbuf) + 1])
            /\ peeks' = peeks
    /\ UNCHANGED <<slots, req, ack, sem, queue, ridx>>
    /\ UNCHANGED <<sendVars, ackVars, reqVars, sent, rcvd>>
    /\ UNCHANGED extVars

\* ---------------------------------------------------------------- lifecycle
\* CspSendPort.start, lines 79-95, first call: the BoundedSemaphore is created
\* with size permits and the ack-drain thread is spawned
SendStart ==
    /\ spc = "idle"
    /\ selpc = "idle"
    /\ ~sstarted
    /\ sstarted' = TRUE
    /\ sem' = Size
    /\ apc' = "test"
    /\ serr' = "none"
    /\ UNCHANGED <<slots, req, ack, queue, anotfull>>
    /\ UNCHANGED <<sidx, spc, sdata, sw, sdtype, sprobe>>
    /\ UNCHANGED <<recvVars, reqVars, histVars>>
    /\ UNCHANGED <<rstarted, sdone, rdone, rerr, thr2Vars, selVars>>
    /\ UNCHANGED call

\* the second calls of start issued so far, one drain thread spawned by each
SecondStarts ==
    (IF apc2 = "none" THEN 0 ELSE 1) + (IF qpc2 = "none" THEN 0 ELSE 1)

\* CspSendPort.start, lines 79-95, second call: start has no test of an earlier
\* call, so self._semaphore is replaced by a new BoundedSemaphore with size
\* permits, a second ack-drain thread is spawned and start returns normally
SendStartAgain ==
    /\ spc = "idle"
    /\ selpc = "idle"
    /\ sstarted
    /\ apc2 = "none"
    /\ SecondStarts < MaxRestarts
    /\ sem' = Size
    /\ apc2' = "test"
    /\ serr' = "none"
    /\ UNCHANGED <<slots, req, ack, queue, ackVars>>
    /\ UNCHANGED <<sidx, spc, sdata, sw, sdtype, sprobe>>
    /\ UNCHANGED <<recvVars, reqVars, histVars>>
    /\ UNCHANGED <<lifeVars, anotfull2, qpc2, qnotempty2, selVars>>
    /\ UNCHANGED call

\* CspRecvPort.start, lines 216-232, first call: the CspRecvQueue is created
\* and the req-drain thread is spawned
RecvStart ==
    /\ rpc = "idle"
    /\ selpc = "idle"
    /\ ~rstarted
    /\ rstarted' = TRUE
    /\ queue' = <<>>
    /\ qpc' = "test"
    /\ rerr' = "none"
    /\ UNCHANGED <<slots, req, ack, sem, qnotempty>>
    /\ UNCHANGED <<sendVars, ackVars, recvVars, histVars>>
    /\ UNCHANGED <<sstarted, sdone, rdone, thr2Vars, selVars>>
    /\ UNCHANGED call

\* CspRecvPort.start, lines 216-232, second call: start has no test of an
\* earlier call, so self._queue is replaced by a new empty CspRecvQueue, a
\* second req-drain thread is spawned and start returns normally
RecvStartAgain ==
    /\ rpc = "idle"
    /\ selpc = "idle"
    /\ rstarted
    /\ qpc2 = "none"
    /\ SecondStarts < MaxRestarts
    /\ queue' = <<>>
    /\ qpc2' = "test"
    /\ rerr' = "none"
    /\ UNCHANGED <<slots, req, ack, sem, reqVars>>
    /\ UNCHANGED <<sendVars, ackVars, recvVars, histVars>>
    /\ UNCHANGED <<sstarted, rstarted, sdone, rdone>>
    /\ UNCHANGED <<apc2, anotfull2, qnotempty2, selVars>>
    /\ UNCHANGED call

\* CspSendPort.join, lines 129-130: self._done = True, called from any thread
SendJoin ==
    /\ ~sdone
    /\ sdone' = TRUE
    /\ UNCHANGED chanVars
    /\ UNCHANGED <<sendVars, ackVars, recvVars, reqVars, histVars>>
    /\ UNCHANGED <<sstarted, rstarted, rdone, rerr, thr2Vars, selVars>>
    /\ UNCHANGED call

\* CspRecvPort.join, lines 272-273: self._done = True, called from any thread
RecvJoin ==
    /\ ~rdone
    /\ rdone' = TRUE
    /\ UNCHANGED chanVars
    /\ UNCHANGED <<sendVars, ackVars, recvVars, reqVars, histVars>>
    /\ UNCHANGED <<sstarted, rstarted, sdone, rerr, thr2Vars, selVars>>
    /\ UNCHANGED call

\* variant of SendUnstarted: send on a port that was not started goes on to
\* write the slot
SendUnstarted_Write ==
    /\ spc = "acquire"
    /\ ~sstarted
    /\ sw' = 0
    /\ spc' = "write"
    /\ UNCHANGED <<chanVars, sidx, sdata>>
    /\ UNCHANGED <<ackVars, recvVars, reqVars, histVars>>
    /\ UNCHANGED sargVars
    /\ UNCHANGED extVars

\* send, line 124, on a port that was not started: self._semaphore is None and
\* the attribute access raises AttributeError
SendUnstarted ==
    /\ spc = "acquire"
    /\ ~sstarted
    /\ serr' = "AttributeError"
    /\ spc' = "idle"
    /\ sdata' = ZeroTensor
    /\ sdtype' = "proto"
    /\ UNCHANGED <<chanVars, sidx, sw, sprobe>>
    /\ UNCHANGED <<ackVars, recvVars, reqVars, histVars>>
    /\ UNCHANGED extVars

\* recv, line 265, on a port that was not started: self._queue is None and
\* the attribute access raises AttributeError
RecvUnstarted ==
    /\ rpc = "get"
    /\ ~rstarted
    /\ rerr' = "AttributeError"
    /\ rpc' = "idle"
    /\ UNCHANGED <<chanVars, ridx, rbuf>>
    /\ UNCHANGED <<sendVars, ackVars, reqVars, histVars>>
    /\ UNCHANGED <<sstarted, rstarted, sdone, rdone, thr2Vars, selVars>>
    /\ UNCHANGED call

\* peek, line 257, on a port that was not started: self._queue is None and
\* the attribute access raises AttributeError
PeekUnstarted ==
    /\ rpc = "peek_get"
    /\ ~rstarted
    /\ rerr' = "AttributeError"
    /\ rpc' = "idle"
    /\ UNCHANGED <<chanVars, ridx, rbuf>>
    /\ UNCHANGED <<sendVars, ackVars, reqVars, histVars>>
    /\ UNCHANGED <<sstarted, rstarted, sdone, rdone, thr2Vars, selVars>>
    /\ UNCHANGED call

\* _ack_callback run by the thread of the second start, line 99
Ack2Test ==
    /\ apc2 = "test"
    /\ apc2' = IF sdone THEN "exited" ELSE "wait"
    /\ UNCHANGED <<chanVars, anotfull2>>
    /\ UNCHANGED <<sendVars, recvVars, reqVars, histVars>>
    /\ UNCHANGED <<ackVars, qpc2, qnotempty2, lifeVars, selVars>>
    /\ UNCHANGED call

\* _ack_callback run by the thread of the second start, line 100
Ack2Acquire ==
    /\ apc2 = "wait"
    /\ ack > 0
    /\ ack' = ack - 1
    /\ apc2' = "probe"
    /\ UNCHANGED <<slots, req, sem, anotfull2>>
    /\ UNCHANGED <<sendVars, recvVars, queue, reqVars, histVars>>
    /\ UNCHANGED <<ackVars, qpc2, qnotempty2, lifeVars, selVars>>
    /\ UNCHANGED call

\* _ack_callback run by the thread of the second start, line 101 (probe,
\* line 113)
Ack2ProbeAcquire ==
    /\ apc2 = "probe"
    /\ IF sem > 0
       THEN /\ sem' = sem - 1
            /\ anotfull2' = TRUE
            /\ apc2' = "probe_release"
       ELSE /\ sem' = sem
            /\ anotfull2' = FALSE
            /\ apc2' = "release"
    /\ UNCHANGED <<slots, req, ack>>
    /\ UNCHANGED <<sendVars, recvVars, queue, reqVars, histVars>>
    /\ UNCHANGED <<ackVars, qpc2, qnotempty2, lifeVars, selVars>>
    /\ UNCHANGED call

\* _ack_callback run by the thread of the second start, line 101 (probe,
\* line 115)
Ack2ProbeRelease ==
    /\ apc2 = "probe_release"
    /\ IF sem < Size
       THEN /\ sem' = sem + 1
            /\ apc2' = "release"
       ELSE /\ sem' = sem
            /\ apc2' = "crashed"
    /\ UNCHANGED <<slots, req, ack, anotfull2>>
    /\ UNCHANGED <<sendVars, recvVars, queue, reqVars, histVars>>
    /\ UNCHANGED <<ackVars, qpc2, qnotempty2, lifeVars, selVars>>
    /\ UNCHANGED call

\* _ack_callback run by the thread of the second start, line 102
Ack2Release ==
    /\ apc2 = "release"
    /\ IF sem < Size
       THEN /\ sem' = sem + 1
            /\ apc2' = "observe"
       ELSE /\ sem' = sem
            /\ apc2' = "crashed"
    /\ UNCHANGED <<slots, req, ack, anotfull2>>
    /\ UNCHANGED <<sendVars, recvVars, queue, reqVars, histVars>>
    /\ UNCHANGED <<ackVars, qpc2, qnotempty2, lifeVars, selVars>>
    /\ UNCHANGED call

\* _ack_callback run by the thread of the second start, line 103
Ack2Observe ==
    /\ apc2 = "observe"
    /\ apc2' = IF sobs /\ ~anotfull2 THEN "call" ELSE "test"
    /\ UNCHANGED <<chanVars, anotfull2>>
    /\ UNCHANGED <<sendVars, recvVars, reqVars, histVars>>
    /\ UNCHANGED <<ackVars, qpc2, qnotempty2, lifeVars, selVars>>
    /\ UNCHANGED call

\* _req_callback run by the thread of the second start, line 236
Req2Test ==
    /\ qpc2 = "test"
    /\ qpc2' = IF rdone THEN "exited" ELSE "wait"
    /\ UNCHANGED <<chanVars, qnotempty2>>
    /\ UNCHANGED <<sendVars, ackVars, recvVars, histVars>>
    /\ UNCHANGED <<reqVars, apc2, anotfull2, lifeVars, selVars>>
    /\ UNCHANGED call

\* _req_callback run by the thread of the second start, line 237
Req2Acquire ==
    /\ qpc2 = "wait"
    /\ req > 0
    /\ req' = req - 1
    /\ qpc2' = "probe"
    /\ UNCHANGED <<slots, ack, sem, queue, qnotempty2>>
    /\ UNCHANGED <<sendVars, ackVars, recvVars, histVars>>
    /\ UNCHANGED <<reqVars, apc2, anotfull2, lifeVars, selVars>>
    /\ UNCHANGED call

\* _req_callback run by the thread of the second start, line 238
Req2Probe ==
    /\ qpc2 = "probe"
    /\ qnotempty2' = RecvProbe
    /\ qpc2' = "put"
    /\ UNCHANGED <<slots, req, ack, sem, queue>>
    /\ UNCHANGED <<sendVars, ackVars, recvVars, histVars>>
    /\ UNCHANGED <<reqVars, apc2, anotfull2, lifeVars, selVars>>
    /\ UNCHANGED call

\* _req_callback run by the thread of the second start, line 239
Req2Put ==
    /\ qpc2 = "put"
    /\ IF Len(queue) < Size
       THEN /\ queue' = Append(queue, 0)
            /\ qpc2' = "observe"
       ELSE /\ queue' = queue
            /\ qpc2' = "crashed"
    /\ UNCHANGED <<slots, req, ack, sem, qnotempty2>>
    /\ UNCHANGED <<sendVars, ackVars, recvVars, histVars>>
    /\ UNCHANGED <<reqVars, apc2, anotfull2, lifeVars, selVars>>
    /\ UNCHANGED call

\* _req_callback run by the thread of the second start, line 240
Req2Observe ==
    /\ qpc2 = "observe"
    /\ qpc2' = IF robs /\ ~qnotempty2 THEN "call" ELSE "test"
    /\ UNCHANGED <<chanVars, qnotempty2>>
    /\ UNCHANGED <<sendVars, ackVars, recvVars, histVars>>
    /\ UNCHANGED <<reqVars, apc2, anotfull2, lifeVars, selVars>>
    /\ UNCHANGED call

\* ------------------------------------------------------------- CspSelector
\* the lists of ports the application gives to select, each with its action
SelLists == {<<"send">>, <<"recv">>, <<"send", "recv">>, <<"recv", "send">>}

\* a port is ready: a started SendPort with a permit available, a started
\* RecvPort with a token in its queue
PortReady(p) ==
    IF p = "send" THEN sstarted /\ sem > 0 ELSE rstarted /\ Len(queue) > 0

\* some port of the list l is ready
SomeReady(l) == \E i \in 1..Len(l) : PortReady(l[i])

\* _set_observer, line 291: channel.observer = observer for the port p
SetObserver(p, o) ==
    /\ sobs' = IF p = "send" THEN o ELSE sobs
    /\ robs' = IF p = "recv" THEN o ELSE robs

\* select returns or raises: its arguments and locals go out of scope
SelLeave ==
    /\ sellist' = <<>>
    /\ seli' = 0
    /\ selscan' = <<>>
    /\ selready' = FALSE

\* select is called by the thread that owns both ports, which does nothing
\* else until select returns; it reaches the with statement of line 303
SelectCall ==
    /\ selpc = "idle"
    /\ spc = "idle"
    /\ rpc = "idle"
    /\ \E l \in SelLists :
        /\ sellist' = l
        /\ selready' = SomeReady(l)
    /\ selpc' = "lock"
    /\ seli' = 0
    /\ selscan' = <<>>
    /\ selres' = 0
    /\ selerr' = "none"
    /\ UNCHANGED <<chanVars, sendVars, ackVars, recvVars, reqVars, histVars>>
    /\ UNCHANGED <<lifeVars, thr2Vars, obsVars, cvowner>>
    /\ UNCHANGED call

\* select, line 303: with self._cv takes the lock of the condition variable
SelLock ==
    /\ selpc = "lock"
    /\ cvowner = "none"
    /\ cvowner' = "select"
    /\ selpc' = "set"
    /\ seli' = 1
    /\ UNCHANGED <<chanVars, sendVars, ackVars, recvVars, reqVars, histVars>>
    /\ UNCHANGED <<lifeVars, thr2Vars, obsVars>>
    /\ UNCHANGED <<sellist, selscan, selres, selerr, selready>>
    /\ UNCHANGED call

\* select, line 304 (_set_observer, lines 290-291): one assignment of
\* self._changed to the observer of a listed port
SelSetObserver ==
    /\ selpc = "set"
    /\ SetObserver(sellist[seli], TRUE)
    /\ IF seli = Len(sellist)
       THEN /\ selpc' = "scan"
            /\ seli' = 1
       ELSE /\ selpc' = "set"
            /\ seli' = seli + 1
    /\ UNCHANGED <<chanVars, sendVars, ackVars, recvVars, reqVars, histVars>>
    /\ UNCHANGED <<lifeVars, thr2Vars, cvowner>>
    /\ UNCHANGED <<sellist, selscan, selres, selerr, selready>>
    /\ UNCHANGED call

\* variant of SelProbe: the scan does not stop at a ready RecvPort
SelProbe_Continue ==
    /\ selpc = "scan"
    /\ seli <= Len(sellist)
    /\ IF sellist[seli] = "send"
       THEN IF ~sstarted
            THEN /\ selerr' = "AttributeError"
                 /\ selpc' = "idle"
                 /\ cvowner' = "none"
                 /\ SelLeave
                 /\ UNCHANGED sem
            ELSE IF sem > 0
                 THEN /\ sem' = sem - 1
                      /\ selpc' = "probe_release"
                      /\ UNCHANGED <<seli, selscan, selerr, cvowner>>
                      /\ UNCHANGED <<sellist, selready>>
                 ELSE /\ selscan' = Append(selscan, FALSE)
                      /\ seli' = seli + 1
                      /\ UNCHANGED <<sem, selpc, selerr, cvowner>>
                      /\ UNCHANGED <<sellist, selready>>
       ELSE IF ~rstarted
            THEN /\ selerr' = "AttributeError"
                 /\ selpc' = "idle"
                 /\ cvowner' = "none"
                 /\ SelLeave
                 /\ UNCHANGED sem
            ELSE IF Len(queue) > 0 /\ seli = Len(sellist)
                 THEN /\ selscan' = Append(selscan, TRUE)
                      /\ selpc' = "unset"
                      /\ seli' = 1
                      /\ UNCHANGED <<sem, selerr, cvowner>>
                      /\ UNCHANGED <<sellist, selready>>
                 ELSE /\ selscan' = Append(selscan, Len(queue) > 0)
                      /\ seli' = seli + 1
                      /\ UNCHANGED <<sem, selpc, selerr, cvowner>>
                      /\ UNCHANGED <<sellist, selready>>
    /\ UNCHANGED <<slots, req, ack, queue>>
    /\ UNCHANGED <<sendVars, ackVars, recvVars, reqVars, histVars>>
    /\ UNCHANGED <<lifeVars, thr2Vars, obsVars, selres>>
    /\ UNCHANGED call

\* select, lines 306-307: channel.probe() of the next listed port. The probe of
\* a port that was not started raises AttributeError (self._semaphore or
\* self._queue is None), which select passes on, leaving the with block; the
\* probe of a SendPort takes a permit when there is one (line 113); the probe
\* of a RecvPort is qsize() > 0 (line 250)
SelProbe ==
    /\ selpc = "scan"
    /\ seli <= Len(sellist)
    /\ IF sellist[seli] = "send"
       THEN IF ~sstarted
            THEN /\ selerr' = "AttributeError"
                 /\ selpc' = "idle"
                 /\ cvowner' = "none"
                 /\ SelLeave
                 /\ UNCHANGED sem
            ELSE IF sem > 0
                 THEN /\ sem' = sem - 1
                      /\ selpc' = "probe_release"
                      /\ UNCHANGED <<seli, selscan, selerr, cvowner>>
                      /\ UNCHANGED <<sellist, selready>>
                 ELSE /\ selscan' = Append(selscan, FALSE)
                      /\ seli' = seli + 1
                      /\ UNCHANGED <<sem, selpc, selerr, cvowner>>
                      /\ UNCHANGED <<sellist, selready>>
       ELSE IF ~rstarted
            THEN /\ selerr' = "AttributeError"
                 /\ selpc' = "idle"
                 /\ cvowner' = "none"
                 /\ SelLeave
                 /\ UNCHANGED sem
            ELSE IF Len(queue) > 0
                 THEN /\ selscan' = Append(selscan, TRUE)
                      /\ selpc' = "unset"
                      /\ seli' = 1
                      /\ UNCHANGED <<sem, selerr, cvowner>>
                      /\ UNCHANGED <<sellist, selready>>
                 ELSE /\ selscan' = Append(selscan, FALSE)
                      /\ seli' = seli + 1
                      /\ UNCHANGED <<sem, selpc, selerr, cvowner>>
                      /\ UNCHANGED <<sellist, selready>>
    /\ UNCHANGED <<slots, req, ack, queue>>
    /\ UNCHANGED <<sendVars, ackVars, recvVars, reqVars, histVars>>
    /\ UNCHANGED <<lifeVars, thr2Vars, obsVars, selres>>
    /\ UNCHANGED call

\* variant of SelProbeRelease: the probe of the SendPort keeps the permit
SelProbeRelease_Keep ==
    /\ selpc = "probe_release"
    /\ selscan' = Append(selscan, TRUE)
    /\ selpc' = "unset"
    /\ seli' = 1
    /\ UNCHANGED <<sem, selerr, cvowner, sellist, selready>>
    /\ UNCHANGED <<slots, req, ack, queue>>
    /\ UNCHANGED <<sendVars, ackVars, recvVars, reqVars, histVars>>
    /\ UNCHANGED <<lifeVars, thr2Vars, obsVars, selres>>
    /\ UNCHANGED call

\* select, line 307 (probe, lines 115-116): the probe of the SendPort gives
\* the permit back and returns True; a release above the initial value of the
\* BoundedSemaphore raises ValueError, which select passes on
SelProbeRelease ==
    /\ selpc = "probe_release"
    /\ IF sem < Size
       THEN /\ sem' = sem + 1
            /\ selscan' = Append(selscan, TRUE)
            /\ selpc' = "unset"
            /\ seli' = 1
            /\ UNCHANGED <<selerr, cvowner, sellist, selready>>
       ELSE /\ selerr' = "ValueError"
            /\ selpc' = "idle"
            /\ cvowner' = "none"
            /\ SelLeave
            /\ UNCHANGED sem
    /\ UNCHANGED <<slots, req, ack, queue>>
    /\ UNCHANGED <<sendVars, ackVars, recvVars, reqVars, histVars>>
    /\ UNCHANGED <<lifeVars, thr2Vars, obsVars, selres>>
    /\ UNCHANGED call

\* select, line 308 (_set_observer, lines 290-291): one assignment of None to
\* the observer of a listed port
SelUnsetObserver ==
    /\ selpc = "unset"
    /\ SetObserver(sellist[seli], FALSE)
    /\ IF seli = Len(sellist)
       THEN /\ selpc' = "action"
            /\ seli' = Len(selscan)
       ELSE /\ selpc' = "unset"
            /\ seli' = seli + 1
    /\ UNCHANGED <<chanVars, sendVars, ackVars, recvVars, reqVars, histVars>>
    /\ UNCHANGED <<lifeVars, thr2Vars, cvowner>>
    /\ UNCHANGED <<sellist, selscan, selres, selerr, selready>>
    /\ UNCHANGED call

\* select, line 309: return action(); the action of the pair the scan stopped
\* at runs and returns its result, or raises; either way the with block is
\* left and the lock given back
SelAction ==
    /\ selpc = "action"
    /\ selres' = seli
    /\ selerr' \in {"none", "ActionError"}
    /\ selpc' = "idle"
    /\ cvowner' = "none"
    /\ SelLeave
    /\ UNCHANGED <<chanVars, sendVars, ackVars, recvVars, reqVars, histVars>>
    /\ UNCHANGED <<lifeVars, thr2Vars, obsVars>>
    /\ UNCHANGED call

\* select, line 310: no listed port was ready, self._cv.wait() gives the lock
\* back and waits for a notification
SelWait ==
    /\ selpc = "scan"
    /\ seli > Len(sellist)
    /\ selpc' = "waiting"
    /\ cvowner' = "none"
    /\ UNCHANGED <<chanVars, sendVars, ackVars, recvVars, reqVars, histVars>>
    /\ UNCHANGED <<lifeVars, thr2Vars, obsVars>>
    /\ UNCHANGED selLocals
    /\ UNCHANGED call

\* select, line 310: the notified wait takes the lock again and returns, and
\* the loop of line 305 scans the list anew
SelWake ==
    /\ selpc = "woken"
    /\ cvowner = "none"
    /\ cvowner' = "select"
    /\ selpc' = "scan"
    /\ seli' = 1
    /\ selscan' = <<>>
    /\ UNCHANGED <<chanVars, sendVars, ackVars, recvVars, reqVars, histVars>>
    /\ UNCHANGED <<lifeVars, thr2Vars, obsVars>>
    /\ UNCHANGED <<sellist, selres, selerr, selready>>
    /\ UNCHANGED call

\* ------------------------------------------------------------ specification
Next ==
    \/ SendCall
    \/ SendAcquire
    \/ SendWrite
    \/ SendAdvance
    \/ SendRelease
    \/ SendProbeAcquire
    \/ SendProbeFail
    \/ SendProbeRelease
    \/ AckAcquire
    \/ AckProbeAcquire
    \/ AckProbeRelease
    \/ AckRelease
    \/ AckObserve
    \/ AckTest
    \/ ReqAcquire
    \/ ReqProbe
    \/ ReqPut
    \/ ReqObserve
    \/ ReqTest
    \/ RecvCall
    \/ RecvGet
    \/ RecvCopy
    \/ RecvAdvance
    \/ RecvRelease
    \/ PeekCall
    \/ PeekGet
    \/ PeekCopy

Spec == Init /\ [][Next]_vars

\* the channel with a sender that also passes ill-shaped and ill-typed
\* tensors, and a receiver that only calls recv
NextArgs ==
    \/ SendCall
    \/ SendCallBadShape
    \/ SendBadShape
    \/ SendCallOtherDtype
    \/ SendAcquire
    \/ SendWrite
    \/ SendAdvance
    \/ SendRelease
    \/ AckAcquire
    \/ AckProbeAcquire
    \/ AckProbeRelease
    \/ AckRelease
    \/ AckObserve
    \/ AckTest
    \/ ReqAcquire
    \/ ReqProbe
    \/ ReqPut
    \/ ReqObserve
    \/ ReqTest
    \/ RecvCall
    \/ RecvGet
    \/ RecvCopy
    \/ RecvAdvance
    \/ RecvRelease

SpecArgs == Init /\ [][NextArgs]_vars

\* the channel from its construction on: each port is started once and is
\* used before and after its start
NextStart ==
    \/ SendStart
    \/ RecvStart
    \/ SendCall
    \/ SendUnstarted
    \/ SendAcquire
    \/ SendWrite
    \/ SendAdvance
    \/ SendRelease
    \/ AckAcquire
    \/ AckProbeAcquire
    \/ AckProbeRelease
    \/ AckRelease
    \/ AckObserve
    \/ AckTest
    \/ ReqAcquire
    \/ ReqProbe
    \/ ReqPut
    \/ ReqObserve
    \/ ReqTest
    \/ RecvCall
    \/ RecvUnstarted
    \/ RecvGet
    \/ RecvCopy
    \/ RecvAdvance
    \/ RecvRelease
    \/ PeekCall
    \/ PeekUnstarted
    \/ PeekGet
    \/ PeekCopy

SpecStart == InitNew /\ [][NextStart]_vars

\* the channel from its construction on, with one thread that owns both
\* ports: it starts them, sends, receives and calls select on them
NextSel ==
    \/ SendStart
    \/ RecvStart
    \/ SendCallOnes
    \/ SendAcquire
    \/ SendWrite
    \/ SendAdvance
    \/ SendRelease
    \/ AckAcquire
    \/ AckProbeAcquire
    \/ AckProbeRelease
    \/ AckRelease
    \/ AckObserve
    \/ AckCall
    \/ AckLock
    \/ AckNotify
    \/ AckTest
    \/ ReqAcquire
    \/ ReqProbe
    \/ ReqPut
    \/ ReqObserve
    \/ ReqCall
    \/ ReqLock
    \/ ReqNotify
    \/ ReqTest
    \/ RecvCall
    \/ RecvGet
    \/ RecvCopy
    \/ RecvAdvance
    \/ RecvRelease
    \/ SelectCall
    \/ SelLock
    \/ SelSetObserver
    \/ SelProbe
    \/ SelProbeRelease
    \/ SelUnsetObserver
    \/ SelAction
    \/ SelWait
    \/ SelWake

SpecSel == InitNew /\ [][NextSel]_vars

\* the started channel whose ports are joined at any moment
NextJoin ==
    \/ SendJoin
    \/ RecvJoin
    \/ SendCall
    \/ SendAcquire
    \/ SendWrite
    \/ SendAdvance
    \/ SendRelease
    \/ AckAcquire
    \/ AckProbeAcquire
    \/ AckProbeRelease
    \/ AckRelease
    \/ AckObserve
    \/ AckTest
    \/ ReqAcquire
    \/ ReqProbe
    \/ ReqPut
    \/ ReqObserve
    \/ ReqTest
    \/ RecvCall
    \/ RecvGet
    \/ RecvCopy
    \/ RecvAdvance
    \/ RecvRelease

SpecJoin == Init /\ [][NextJoin]_vars

\* the started channel whose ports are started a second time
NextRestart ==
    \/ SendStartAgain
    \/ RecvStartAgain
    \/ SendCall
    \/ SendAcquire
    \/ SendWrite
    \/ SendAdvance
    \/ SendRelease
    \/ AckAcquire
    \/ AckProbeAcquire
    \/ AckProbeRelease
    \/ AckRelease
    \/ AckObserve
    \/ AckTest
    \/ Ack2Acquire
    \/ Ack2ProbeAcquire
    \/ Ack2ProbeRelease
    \/ Ack2Release
    \/ Ack2Observe
    \/ Ack2Test
    \/ ReqAcquire
    \/ ReqProbe
    \/ ReqPut
    \/ ReqObserve
    \/ ReqTest
    \/ Req2Acquire
    \/ Req2Probe
    \/ Req2Put
    \/ Req2Observe
    \/ Req2Test
    \/ RecvCall
    \/ RecvGet
    \/ RecvCopy
    \/ RecvAdvance
    \/ RecvRelease

SpecRestart == Init /\ [][NextRestart]_vars

TypeOK ==
    /\ sidx \in Slots
    /\ ridx \in Slots
    /\ sem \in 0..Size
    /\ req \in 0..Size
    /\ ack \in 0..Size
    /\ Len(queue) <= Size
    /\ apc # "crashed"
    /\ qpc # "crashed"

\* ------------------------------------------------------------------ helpers
\* 1 when the condition holds, else 0
Unit(b) == IF b THEN 1 ELSE 0

\* a send holds a permit between its acquire (line 124) and its req.release
SendHolds == spc \in {"write", "advance", "release"}
\* the req-drain thread holds a unit between req.acquire and put_nowait
ReqHolds == qpc \in {"probe", "put"}
\* a recv holds a token between the dequeue (line 265) and its ack.release
RecvHolds == rpc \in {"copy", "advance", "release"}
\* the ack-drain thread holds a unit between ack.acquire and the permit release
AckHolds == apc \in {"probe", "probe_release", "release"}
\* permits taken by a probe that has not yet given them back
ProbeHolds == Unit(spc = "probe") + Unit(apc = "probe_release")

\* a step of the receiver's application thread that belongs to a peek
PeekStep ==
    \/ rpc = "idle" /\ rpc' = "peek_get"
    \/ rpc = "peek_get" /\ rpc' = "peek_copy"
    \/ rpc = "peek_copy" /\ (rbuf' # rbuf \/ rpc' = "idle")
\* the step by which a peek returns
PeekReturn == rpc = "peek_copy" /\ rpc' = "idle"
\* the step by which a recv returns
RecvReturn == rpc = "release" /\ rpc' = "idle"

\* ------------------------------------------------------------------- claims
\* C1: FIFO. The i-th completed recv returns the payload of the i-th
\* completed send, for every i, under every interleaving of the four threads.
C1_Fifo ==
    /\ Len(rcvd) <= Len(sent)
    /\ \A i \in 1..Len(rcvd) : rcvd[i] = sent[i]

\* three payloads went through a ring of two slots, not all of them equal
C1_Witness ==
    /\ Len(rcvd) >= 3
    /\ rcvd[1] # rcvd[2]
    /\ rcvd[3] # rcvd[1]

\* C2: slot mutual exclusion. The sender is never inside the slot write of
\* slot i while the receiver is inside the slot copy of recv or peek for the
\* same slot i, and every slot holding a payload that was sent and not yet
\* received still holds that payload.
C2_SlotExclusion ==
    /\ ~(spc = "write" /\ rpc \in {"copy", "peek_copy"} /\ sidx = ridx)
    /\ \A k \in (Len(rcvd) + 1)..Len(sent) : slots[(k - 1) % Size] = sent[k]

\* the sender is half way through a slot write while the receiver is half way
\* through the copy of another slot
C2_Witness ==
    /\ spc = "write" /\ sw = 1
    /\ rpc \in {"copy", "peek_copy"} /\ Len(rbuf) = 1
    /\ sidx # ridx

\* C3: back-pressure. With Size sends completed beyond the completed recvs a
\* further send stays blocked on the permit, and the sends that got a permit
\* never outnumber Size plus the completed recvs.
C3_BackPressure ==
    /\ (spc = "acquire" /\ Len(sent) - Len(rcvd) = Size) => ~ENABLED SendAcquire
    /\ Len(sent) + Unit(SendHolds) <= Size + Len(rcvd)

\* Size sends completed and the next send waits for a permit, while the first
\* recv has copied its slot and is about to release ack
C3_Witness ==
    /\ Len(rcvd) = 0
    /\ Len(sent) = Size
    /\ spc = "acquire"
    /\ sem = 0
    /\ rpc = "release"

\* C4: ack balance. The number of completed sends minus the number of
\* completed recvs lies in [0, Size].
C4_AckBalance == (Len(sent) - Len(rcvd)) \in 0..Size

\* the ring is full again after a first recv
C4_Witness ==
    /\ Len(rcvd) >= 1
    /\ Len(sent) - Len(rcvd) = Size

\* a drain thread is blocked in its acquire: it is at the acquire and the
\* semaphore gives it nothing
DrainsBlocked ==
    /\ apc = "wait" /\ ~ENABLED AckAcquire
    /\ qpc = "wait" /\ ~ENABLED ReqAcquire

\* C5 as stated: when no send and no recv is in progress, both drain threads
\* are blocked in their acquire and as many sends as recvs have completed,
\* req and ack are 0, the sender has all Size permits and the queue is empty.
C5_Original ==
    (/\ spc \notin {"acquire", "write", "advance", "release"}
     /\ rpc \notin {"get", "copy", "advance", "release"}
     /\ DrainsBlocked
     /\ Len(sent) = Len(rcvd))
    => (req = 0 /\ ack = 0 /\ sem = Size /\ queue = <<>>)

\* C5 amended: the same, for the states where no probe of the sender is in
\* progress either.
C5_Quiescence ==
    (/\ spc \notin {"acquire", "write", "advance", "release", "probe"}
     /\ rpc \notin {"get", "copy", "advance", "release"}
     /\ DrainsBlocked
     /\ Len(sent) = Len(rcvd))
    => (req = 0 /\ ack = 0 /\ sem = Size /\ queue = <<>>)

\* the channel is quiet again after payloads went through it, all permits back
C5_Witness ==
    /\ spc = "idle"
    /\ rpc = "idle"
    /\ DrainsBlocked
    /\ Len(sent) = Len(rcvd)
    /\ Len(rcvd) >= 2
    /\ sem = Size

\* C6 as stated: permits + req + queued tokens + ack + the units held by a
\* send, the req-drain thread, a recv and the ack-drain thread equal Size.
C6_Original ==
    sem + req + Len(queue) + ack
      + Unit(SendHolds) + Unit(ReqHolds) + Unit(RecvHolds) + Unit(AckHolds)
    = Size

\* C6 amended: the sum equals Size once the permits that a probe in progress
\* (of the application thread or of the ack-drain thread) has taken and not
\* yet given back are counted as well.
C6_TokenConservation ==
    sem + req + Len(queue) + ack
      + Unit(SendHolds) + Unit(ReqHolds) + Unit(RecvHolds) + Unit(AckHolds)
      + ProbeHolds
    = Size

\* the ack-drain thread's probe holds the only free permit, the unit it
\* drained is still in its hands, and a send waits for a permit
C6_Witness ==
    /\ apc = "probe_release"
    /\ spc = "acquire"
    /\ sem = 0
    /\ Len(rcvd) >= 1

\* C7 as stated: both indices lie in [0, Size); SendPort.idx is the number of
\* completed sends mod Size, RecvPort.idx the number of completed recvs mod
\* Size, and with equal counts the two indices are equal.
C7_Original ==
    /\ sidx \in Slots
    /\ ridx \in Slots
    /\ sidx = Len(sent) % Size
    /\ ridx = Len(rcvd) % Size
    /\ Len(sent) = Len(rcvd) => sidx = ridx

\* C7 amended: both indices lie in [0, Size); a port whose call is not between
\* its index advance and its return has idx = (completed calls) mod Size, and
\* between the two it is one ahead; so with equal counts and no call past its
\* advance the two indices are equal.
C7_IndexLockstep ==
    /\ sidx \in Slots
    /\ ridx \in Slots
    /\ sidx = (Len(sent) + Unit(spc = "release")) % Size
    /\ ridx = (Len(rcvd) + Unit(rpc = "release")) % Size
    /\ (Len(sent) = Len(rcvd) /\ spc # "release" /\ rpc # "release")
         => sidx = ridx

\* both indices went once around the ring and sit on the same slot, not 0
C7_Witness ==
    /\ Len(sent) = Len(rcvd)
    /\ Len(sent) > Size
    /\ spc = "idle"
    /\ rpc = "idle"
    /\ sidx = ridx
    /\ sidx # 0

\* C8: peek idempotence. The peeks since the last recv all returned the same
\* payload, and the next recv returns that payload too, whatever the sender
\* does meanwhile.
C8_PeekIdempotence ==
    /\ [](\A i, j \in 1..Len(peeks) : peeks[i] = peeks[j])
    /\ [][RecvReturn => \A i \in 1..Len(peeks) : peeks[i] = rcvd'[Len(rcvd')]]_vars

\* two peeks, then a recv about to return, while two more sends completed
C8_Witness ==
    /\ Len(peeks) = 2
    /\ rpc = "release"
    /\ Len(sent) >= Len(rcvd) + 2

\* C9: peek frame. No step of a peek changes RecvPort.idx, the receive queue,
\* ack or req, and RecvPort.probe is true when a peek returns.
C9_PeekFrame ==
    /\ [][PeekStep => (ridx' = ridx /\ queue' = queue /\ ack' = ack /\ req' = req)]_vars
    /\ [][PeekReturn => RecvProbe']_vars

\* a peek has just returned
C9_Witness ==
    /\ Len(peeks) >= 1
    /\ rpc = "idle"
    /\ Len(rcvd) >= 1
    /\ RecvProbe

\* C10: the receive queue shrinks only by the dequeue of a recv, one token at
\* a time; ack is released only by a returning recv, once per return; so a
\* peek releases ack zero times and ack releases match completed recvs.
C10_AckPerRecv ==
    /\ [][Len(queue') < Len(queue)
            => (rpc = "get" /\ rpc' = "copy" /\ queue' = Tail(queue))]_vars
    /\ [][ack' > ack => (RecvReturn /\ ack' = ack + 1)]_vars
    /\ [][Len(rcvd') # Len(rcvd)
            => (RecvReturn /\ ack' = ack + 1 /\ Len(rcvd') = Len(rcvd) + 1)]_vars

\* two recvs returned, then a peek, and an ack is still pending
C10_Witness ==
    /\ Len(rcvd) = 2
    /\ Len(peeks) = 1
    /\ rpc = "idle"
    /\ ack >= 1

\* a step of the sender's thread inside a send of an ill-shaped tensor: the
\* call and the raise
ShapeErrorStep ==
    \/ spc = "idle" /\ spc' = "shape_test"
    \/ spc = "shape_test" /\ spc' # spc

\* a step of the sender's thread inside a send of a tensor of another dtype
OtherDtypeStep == sdtype = "other" /\ (spc' # spc \/ sw' # sw)

\* C11: shape enforcement. A send of an ill-shaped tensor raises and leaves
\* SendPort.idx, the permits, req, every slot and all RecvPort state as they
\* were; no send is in progress afterwards and a permit that was available
\* before still is.
C11_ShapeEnforcement ==
    /\ [][spc = "shape_test" => (spc' = spc \/ (spc' = "idle" /\ serr' = "AssertionError"))]_vars
    /\ [][ShapeErrorStep =>
            /\ UNCHANGED <<sidx, sem, req, ack, slots, queue>>
            /\ UNCHANGED <<recvVars, reqVars, ackVars, histVars>>
            /\ (sem > 0 => sem' > 0)]_vars

\* a send was refused for its shape while a payload is under way and the
\* sender still has a permit
C11_Witness ==
    /\ serr = "AssertionError"
    /\ Len(sent) = 1
    /\ Len(rcvd) = 0
    /\ sem = Size - 1

\* C12 as stated: a send of a well-shaped tensor of another dtype takes no
\* permit, writes no slot and does not release req.
C12_DtypeEnforcement ==
    [][OtherDtypeStep => (sem' = sem /\ slots' = slots /\ req' = req)]_vars

\* the index of the first TRUE of a sequence of probe results, 0 without one
FirstTrue(results) ==
    IF \E i \in 1..Len(results) : results[i]
    THEN CHOOSE i \in 1..Len(results) :
            results[i] /\ \A j \in 1..(i - 1) : ~results[j]
    ELSE 0

\* the step of select that invokes an action and leaves select
SelActionStep == selpc = "action" /\ selpc' = "idle"

\* C13: selector priority. A select call invokes exactly one action, by the
\* step that ends the call: the action of the earliest listed pair whose probe
\* returned true in the last scan, the scan having stopped at that pair; a
\* call that returns normally returns that action's result.
C13_SelectorPriority ==
    /\ [][SelActionStep =>
            /\ selres' = FirstTrue(selscan)
            /\ selres' = Len(selscan)
            /\ selres' \in 1..Len(sellist)]_vars
    /\ [][selres' # selres /\ selres' # 0 => SelActionStep]_vars
    /\ [][selpc # "idle" /\ selpc' = "idle" /\ selerr' = "none"
            => SelActionStep]_vars
    /\ [](selpc \in {"unset", "action"} => FirstTrue(selscan) = Len(selscan))

\* both ports were ready in the scan of a select over the RecvPort and the
\* SendPort, in that order, and select is about to run the first action
C13_Witness ==
    /\ selpc = "action"
    /\ sellist = <<"recv", "send">>
    /\ selscan = <<TRUE>>
    /\ PortReady("recv") /\ PortReady("send")

\* C14: selector readiness at entry. A select call that found a listed port
\* ready when it was called never waits on its condition variable.
C14_ReadyAtEntry == [][selready => selpc' # "waiting"]_vars

\* C15: selector wakeup. A select that found no port ready at entry and waits
\* while a listed port is ready is still to be woken: some thread can take a
\* step.
C15_NoLostWakeup ==
    (selpc = "waiting" /\ ~selready /\ SomeReady(sellist)) => ENABLED NextSel

\* C16: selector cleanup. Outside a select call, whether the last one returned
\* or raised, no port has an observer.
C16_Cleanup == selpc = "idle" => (~sobs /\ ~robs)

C18_StartTwiceFails ==
    /\ [][SendStartAgain =>
            /\ serr' # "none"
            /\ UNCHANGED <<sem, sidx, apc, apc2>>]_vars
    /\ [][RecvStartAgain =>
            /\ rerr' # "none"
            /\ UNCHANGED <<queue, ridx, qpc, qpc2>>]_vars

\* a step of send, of recv or of peek on a port that was never started
UnstartedSendStep == spc = "acquire" /\ ~sstarted /\ spc' # spc
UnstartedRecvStep == rpc \in {"get", "peek_get"} /\ ~rstarted /\ rpc' # rpc

\* C19: use before start. send on a SendPort that was never started, and recv
\* or peek on a RecvPort that was never started, raise an error at once instead
\* of waiting, and write no slot, change no idx and release neither req nor ack.
C19_UseBeforeStart ==
    /\ [][UnstartedSendStep =>
            /\ spc' = "idle"
            /\ serr' = "AttributeError"
            /\ UNCHANGED <<chanVars, sidx, ridx, histVars>>]_vars
    /\ [][UnstartedRecvStep =>
            /\ rpc' = "idle"
            /\ rerr' = "AttributeError"
            /\ UNCHANGED <<chanVars, sidx, ridx, histVars>>]_vars
    /\ [](spc = "acquire" /\ ~sstarted => ENABLED SendUnstarted)
    /\ [](rpc = "get" /\ ~rstarted => ENABLED RecvUnstarted)
    /\ [](rpc = "peek_get" /\ ~rstarted => ENABLED PeekUnstarted)

\* a send and a recv or peek have failed on ports that were never started, and
\* the ring and the semaphores are as constructed
C19_Witness ==
    /\ ~sstarted /\ serr = "AttributeError"
    /\ ~rstarted /\ rerr = "AttributeError"
    /\ req = 0 /\ ack = 0 /\ sidx = 0 /\ ridx = 0
    /\ \A i \in Slots : slots[i] = ZeroTensor

\* positions of a drain thread inside an iteration of its loop
InIteration == {"probe", "probe_release", "release", "put", "observe", "call",
                "lock", "notify", "test"}

\* the steps of a drain thread inside an iteration, none of which waits
AckRuns == AckProbeAcquire \/ AckProbeRelease \/ AckRelease \/ AckObserve \/ AckTest
ReqRuns == ReqProbe \/ ReqPut \/ ReqObserve \/ ReqTest

\* how far a drain thread is through an iteration of its loop
DrainRank(pc) ==
    CASE pc = "wait" -> 0
      [] pc = "probe" -> 1
      [] pc = "probe_release" -> 2
      [] pc \in {"release", "put"} -> 3
      [] pc = "observe" -> 4
      [] pc = "test" -> 5
      [] OTHER -> 6

\* C20: join. join only sets the done flag: it can return whatever the send or
\* recv in flight, and changes neither idx, permits, queue, req nor ack. Once
\* done is set, a drain thread inside an iteration can always take its next
\* step, every step brings it nearer to the end of the iteration and none
\* brings it back to its acquire, so it completes at most one more acquire and
\* then terminates; a terminated thread takes nothing from its semaphore.
C20_JoinOnlySetsDone ==
    /\ [][sdone' # sdone => (sdone' /\ UNCHANGED <<chanVars, sendVars, recvVars,
                                                   ackVars, reqVars, histVars>>)]_vars
    /\ [][rdone' # rdone => (rdone' /\ UNCHANGED <<chanVars, sendVars, recvVars,
                                                   ackVars, reqVars, histVars>>)]_vars
    /\ [](~sdone => ENABLED SendJoin)
    /\ [](~rdone => ENABLED RecvJoin)
    /\ [][sdone /\ apc \in InIteration => apc' # "wait"]_vars
    /\ [][rdone /\ qpc \in InIteration => qpc' # "wait"]_vars
    /\ [][apc = "exited" => (apc' = "exited" /\ ack' >= ack)]_vars
    /\ [][qpc = "exited" => (qpc' = "exited" /\ req' >= req)]_vars
    /\ [](sdone /\ apc \in InIteration => ENABLED AckRuns)
    /\ [](rdone /\ qpc \in InIteration => ENABLED ReqRuns)
    /\ [][sdone /\ apc \in InIteration /\ apc' # apc
            => DrainRank(apc') > DrainRank(apc)]_vars
    /\ [][rdone /\ qpc \in InIteration /\ qpc' # qpc
            => DrainRank(qpc') > DrainRank(qpc)]_vars

\* two sends and two recvs completed around a join of the SendPort: the
\* ack-drain thread handled one ack and has exited, the other ack is left
\* on the semaphore
C20_Witness ==
    /\ sdone
    /\ apc = "exited"
    /\ Len(sent) = 2 /\ Len(rcvd) = 2
    /\ ack = 1
    /\ sem = Size - 1

\* a started SendPort with nothing to do: no send called or in flight, every
\* item sent was received and acknowledged, and no ack left on the semaphore
SendPortIdle ==
    /\ sstarted
    /\ spc = "idle"
    /\ rpc = "idle"
    /\ Len(sent) = Len(rcvd)
    /\ ack = 0

ObsSetSend ==
    /\ ~sobs
    /\ sobs' = TRUE
    /\ UNCHANGED <<chanVars, sendVars, ackVars, recvVars, reqVars, histVars>>
    /\ UNCHANGED <<lifeVars, thr2Vars, selpc, selLocals, robs, cvowner, call>>

\* the application sets the observer attribute of the RecvPort (line 197)
ObsSetRecv ==
    /\ ~robs
    /\ robs' = TRUE
    /\ UNCHANGED <<chanVars, sendVars, ackVars, recvVars, reqVars, histVars>>
    /\ UNCHANGED <<lifeVars, thr2Vars, selpc, selLocals, sobs, cvowner, call>>

\* variant of AckEOF: the handler of the EOF error gives a permit back
AckEOF_Release ==
    /\ apc = "wait"
    /\ sem' = IF sem < Size THEN sem + 1 ELSE sem
    /\ apc' = "exited"
    /\ UNCHANGED <<slots, req, ack, queue, anotfull>>
    /\ UNCHANGED <<sendVars, recvVars, reqVars, histVars>>
    /\ UNCHANGED extVars

\* _ack_callback, lines 100 and 105-106: self._ack.acquire() raises EOFError
\* because the peer is gone; the except clause around the loop passes, and
\* the thread function returns
AckEOF ==
    /\ apc = "wait"
    /\ apc' = "exited"
    /\ UNCHANGED <<chanVars, anotfull>>
    /\ UNCHANGED <<sendVars, recvVars, reqVars, histVars>>
    /\ UNCHANGED extVars

\* _req_callback, lines 237 and 242-243: self._req.acquire() raises EOFError;
\* the except clause around the loop passes, and the thread function returns
ReqEOF ==
    /\ qpc = "wait"
    /\ qpc' = "exited"
    /\ UNCHANGED <<chanVars, qnotempty>>
    /\ UNCHANGED <<sendVars, ackVars, recvVars, histVars>>
    /\ UNCHANGED extVars

\* the started channel whose ports have observers set by the application
\* while it sends, probes and receives, and whose peer may go away
NextObs ==
    \/ ObsSetSend
    \/ ObsSetRecv
    \/ SendCallOnes
    \/ SendAcquire
    \/ SendWrite
    \/ SendAdvance
    \/ SendRelease
    \/ SendProbeAcquire
    \/ SendProbeFail
    \/ SendProbeRelease
    \/ AckAcquire
    \/ AckEOF
    \/ AckProbeAcquire
    \/ AckProbeRelease
    \/ AckRelease
    \/ AckObserve
    \/ AckCall
    \/ AckLock
    \/ AckNotify
    \/ AckTest
    \/ ReqAcquire
    \/ ReqEOF
    \/ ReqProbe
    \/ ReqPut
    \/ ReqObserve
    \/ ReqCall
    \/ ReqLock
    \/ ReqNotify
    \/ ReqTest
    \/ RecvCall
    \/ RecvGet
    \/ RecvCopy
    \/ RecvAdvance
    \/ RecvRelease

SpecObs == Init /\ [][NextObs]_vars

\* the step of a drain thread whose acquire raised instead of returning
AckEOFStep == apc = "wait" /\ apc' \notin {"wait", "probe"}
ReqEOFStep == qpc = "wait" /\ qpc' \notin {"wait", "probe"}

\* C22: peer gone. When the acquire of a drain thread raises the EOF error
\* the thread terminates, nothing is raised to the application, no permit is
\* released, no token is enqueued and the observer is not invoked: the step
\* leaves everything but the thread's position as it was, and an exited
\* thread does nothing any more.
C22_PeerGone ==
    /\ [][AckEOFStep => (/\ apc' = "exited"
                         /\ UNCHANGED <<chanVars, sendVars, recvVars, reqVars,
                                        histVars, anotfull, extVars>>)]_vars
    /\ [][ReqEOFStep => (/\ qpc' = "exited"
                         /\ UNCHANGED <<chanVars, sendVars, recvVars, ackVars,
                                        histVars, qnotempty, extVars>>)]_vars
    /\ [][apc = "exited" => (/\ apc' = "exited"
                             /\ ack' >= ack
                             /\ sem' > sem => spc = "probe")]_vars
    /\ [][qpc = "exited" => (/\ qpc' = "exited"
                             /\ req' >= req
                             /\ Len(queue') <= Len(queue))]_vars

\* both peers went away with observers registered: the ack-drain thread left
\* with no permit available and a send waiting for one, the req-drain thread
\* left with a request not enqueued
C22_Witness ==
    /\ apc = "exited" /\ qpc = "exited"
    /\ ~sdone /\ ~rdone
    /\ sobs /\ robs
    /\ sem = 0 /\ spc = "acquire"
    /\ req = 1
    /\ serr = "none" /\ rerr = "none"

\* the release of a permit by the ack-drain thread, line 102
AckReleaseStep == apc = "release" /\ apc' = "observe"
\* the enqueue of a token by the req-drain thread, line 239
ReqPutStep == qpc = "put" /\ qpc' = "observe"

\* C26: the sender's observer is edge-triggered. With an observer registered,
\* the ack-drain thread invokes it for a permit release exactly when that
\* release takes the number of available permits from 0 to 1: the not_full
\* it sampled says, at the release, whether a permit was available, the test
\* after the release goes to the call exactly when not_full is false, and
\* the call is made once.
C26_SendEdge ==
    /\ [][(AckReleaseStep /\ sobs) => (anotfull <=> sem > 0)]_vars
    /\ [][(apc = "observe" /\ apc' # apc /\ sobs)
            => (apc' = "call" <=> ~anotfull)]_vars
    /\ [][(apc = "call" /\ apc' # apc /\ sobs) => apc' = "lock"]_vars
    /\ [][(apc = "notify" /\ apc' # apc) => apc' = "test"]_vars

\* C27: the receiver's observer is edge-triggered. With an observer
\* registered, the req-drain thread invokes it for an enqueue exactly when
\* that enqueue takes the receive queue from empty to non-empty: the
\* not_empty it sampled says, at the enqueue, whether the queue held a token,
\* the test after the enqueue goes to the call exactly when not_empty is
\* false, and the call is made once.
C27_RecvEdge ==
    /\ [][(ReqPutStep /\ robs) => (qnotempty <=> Len(queue) > 0)]_vars
    /\ [][(qpc = "observe" /\ qpc' # qpc /\ robs)
            => (qpc' = "call" <=> ~qnotempty)]_vars
    /\ [][(qpc = "call" /\ qpc' # qpc /\ robs) => qpc' = "lock"]_vars
    /\ [][(qpc = "notify" /\ qpc' # qpc) => qpc' = "test"]_vars

\* the observer attribute of the port p is set
ObserverSet(p) == IF p = "send" THEN sobs ELSE robs

\* C28: in select the action is invoked only after the observers of all
\* listed ports were deregistered and after the lock of the condition
\* variable was released: at the step that invokes the action no observer
\* is set and no thread holds the lock.
C28_ActionOutsideLock ==
    [][SelActionStep => (/\ \A i \in 1..Len(sellist) : ~ObserverSet(sellist[i])
                         /\ cvowner = "none")]_vars

\* C29: the receive queue never overflows. The queue of a started channel
\* holds at most size tokens, and when the req-drain thread is about to
\* enqueue there is room for the token, so put_nowait never raises Full.
C29_QueueNeverFull ==
    /\ Len(queue) <= Size
    /\ qpc \in {"probe", "put"} => Len(queue) < Size
    /\ qpc # "crashed"

\* the slot a send has written, once its idx has advanced
SentSlot == (sidx + Size - 1) % Size

\* C30: step ordering inside send and recv. In send the permit is acquired
\* before the slot is written, and the whole tensor is in the slot and idx
\* has advanced when req is released; in recv the token is dequeued before
\* the slot is copied, and the whole slot is copied and idx has advanced when
\* ack is released. A completed send releases req exactly once and takes
\* exactly one permit.
C30_StepOrder ==
    /\ [][slots' # slots => (spc = "write" /\ sem' = sem /\ req' = req)]_vars
    /\ [][(spc = "acquire" /\ spc' # spc)
            => (spc' = "write" /\ sem' = sem - 1 /\ slots' = slots)]_vars
    /\ [][(SendHolds /\ (spc' # spc \/ sw' # sw)) => sem' = sem]_vars
    /\ [][req' > req => (/\ req' = req + 1
                         /\ spc = "release" /\ spc' = "idle"
                         /\ \A k \in 1..NElem :
                                slots[SentSlot][k] = Stored(sdtype, sdata[k])
                         /\ sidx = Len(sent') % Size
                         /\ sent' = Append(sent, sdata))]_vars
    /\ [][sent' # sent => req' = req + 1]_vars
    /\ [][(rpc = "get" /\ rpc' # rpc)
            => (/\ rpc' = "copy"
                /\ queue' = Tail(queue)
                /\ rbuf' = <<>> /\ ack' = ack)]_vars
    /\ [][(rpc = "copy" /\ rpc' # "idle" /\ rbuf' # rbuf) => ack' = ack]_vars
    /\ [][ack' > ack => (/\ ack' = ack + 1
                         /\ rpc = "release" /\ rpc' = "idle"
                         /\ Len(rbuf) = NElem
                         /\ ridx = Len(rcvd') % Size
                         /\ rcvd' = Append(rcvd, rbuf))]_vars

\* a send has written its tensor and advanced idx and is about to release
\* req, while a recv has copied the previous item and advanced idx and is
\* about to release ack
C30_Witness ==
    /\ spc = "release" /\ rpc = "release"
    /\ Len(sent) = 1 /\ Len(rcvd) = 0
    /\ sidx = 0 /\ ridx = 1
    /\ sem = 0

\* ------------------------------------------------------ the queue by itself
\* the items put on a CspRecvQueue by its user
Tokens == {0, 1}

\* the timeout arguments of get: <<>> stands for None, <<t>> for the number t
Timeouts == {<<>>, <<-1>>, <<0>>, <<1>>}

\* the error get raises for its arguments on the queue q, lines 147-161:
\* block false looks at the queue only; block true with timeout None waits;
\* a negative timeout raises ValueError; another timeout raises Empty once
\* the time is over with the queue still empty
GetError(q, block, timeout) ==
    IF ~block
    THEN IF Len(q) = 0 THEN "Empty" ELSE "none"
    ELSE IF timeout = <<>>
         THEN "none"
         ELSE IF timeout[1] < 0
              THEN "ValueError"
              ELSE IF Len(q) = 0 THEN "Empty" ELSE "none"

\* Queue.put_nowait as line 239 calls it, by the user of the queue: the item
\* is appended, or Full is raised on a queue of maxsize items
QueuePut(x) ==
    /\ rpc = "idle"
    /\ IF Len(queue) < Size
       THEN /\ queue' = Append(queue, x)
            /\ call' = [op |-> "put", item |-> <<x>>, err |-> "none"]
       ELSE /\ queue' = queue
            /\ call' = [op |-> "put", item |-> <<x>>, err |-> "Full"]
    /\ UNCHANGED <<slots, req, ack, sem>>
    /\ UNCHANGED <<sendVars, ackVars, recvVars, reqVars, histVars>>
    /\ UNCHANGED <<lifeVars, thr2Vars, selVars>>

\* variant of QueueGet: peek is not looked at, the head is always removed
QueueGet_Pop(block, timeout, peek) ==
    /\ rpc = "idle"
    /\ ~(block /\ timeout = <<>> /\ Len(queue) = 0)
    /\ LET err == GetError(queue, block, timeout)
       IN  /\ queue' = IF err = "none" THEN Tail(queue) ELSE queue
           /\ call' = [op |-> "get", block |-> block, timeout |-> timeout,
                       peek |-> peek, before |-> queue,
                       item |-> IF err = "none" THEN <<Head(queue)>> ELSE <<>>,
                       err |-> err]
    /\ UNCHANGED <<slots, req, ack, sem>>
    /\ UNCHANGED <<sendVars, ackVars, recvVars, reqVars, histVars>>
    /\ UNCHANGED <<lifeVars, thr2Vars, selVars>>

\* variant of QueueGet: the timeout is not tested for its sign, a negative
\* one is over at once
QueueGet_NoSign(block, timeout, peek) ==
    /\ rpc = "idle"
    /\ ~(block /\ timeout = <<>> /\ Len(queue) = 0)
    /\ LET err == IF Len(queue) = 0 THEN "Empty" ELSE "none"
       IN  /\ queue' = IF err = "none" /\ ~peek THEN Tail(queue) ELSE queue
           /\ call' = [op |-> "get", block |-> block, timeout |-> timeout,
                       peek |-> peek, before |-> queue,
                       item |-> IF err = "none" THEN <<Head(queue)>> ELSE <<>>,
                       err |-> err]
    /\ UNCHANGED <<slots, req, ack, sem>>
    /\ UNCHANGED <<sendVars, ackVars, recvVars, reqVars, histVars>>
    /\ UNCHANGED <<lifeVars, thr2Vars, selVars>>

\* CspRecvQueue.get, lines 138-164, called on the queue by its user; the
\* whole call runs under the mutex of the queue. With block true and timeout
\* None the call waits for an item; a call that raises leaves the queue as
\* it is; otherwise the head is returned, and removed unless peek is true
QueueGet(block, timeout, peek) ==
    /\ rpc = "idle"
    /\ ~(block /\ timeout = <<>> /\ Len(queue) = 0)
    /\ LET err == GetError(queue, block, timeout)
       IN  /\ queue' = IF err = "none" /\ ~peek THEN Tail(queue) ELSE queue
           /\ call' = [op |-> "get", block |-> block, timeout |-> timeout,
                       peek |-> peek, before |-> queue,
                       item |-> IF err = "none" THEN <<Head(queue)>> ELSE <<>>,
                       err |-> err]
    /\ UNCHANGED <<slots, req, ack, sem>>
    /\ UNCHANGED <<sendVars, ackVars, recvVars, reqVars, histVars>>
    /\ UNCHANGED <<lifeVars, thr2Vars, selVars>>

\* the queue of a started RecvPort, used by itself with every combination
\* of the arguments of get
NextQueue ==
    \/ \E x \in Tokens : QueuePut(x)
    \/ \E block \in BOOLEAN, timeout \in Timeouts, peek \in BOOLEAN :
          QueueGet(block, timeout, peek)

SpecQueue == Init /\ [][NextQueue]_vars

\* a step that is a call of get
GetStep == call' # call /\ call'.op = "get"

\* C23: get with block false. On an empty queue it raises Empty at once and
\* leaves the queue unchanged, with peek false and with peek true; on a
\* non-empty queue it returns the head and removes it iff peek is false. The
\* call never waits: it can be made in every state.
C23_NonBlockingGet ==
    /\ [][(GetStep /\ ~call'.block)
            => IF Len(queue) = 0
               THEN /\ call'.err = "Empty"
                    /\ call'.item = <<>>
                    /\ queue' = queue
               ELSE /\ call'.err = "none"
                    /\ call'.item = <<Head(queue)>>
                    /\ queue' = IF call'.peek THEN queue ELSE Tail(queue)]_vars
    /\ [](\A timeout \in Timeouts, peek \in BOOLEAN :
              ENABLED QueueGet(FALSE, timeout, peek))

\* a non-blocking get has returned the head 1 of the queue <<1, 0>> and has
\* removed it
C23_Witness ==
    /\ call.op = "get"
    /\ ~call.block /\ ~call.peek
    /\ call.before = <<1, 0>>
    /\ call.item = <<1>>
    /\ queue = <<0>>

\* a step that is a call of get with a negative timeout
NegativeTimeoutStep == GetStep /\ call'.timeout # <<>> /\ call'.timeout[1] < 0

\* C24 as claimed: get called with a negative timeout raises ValueError and
\* leaves the queue unchanged.
C24_NegativeTimeout ==
    [][NegativeTimeoutStep => (call'.err = "ValueError" /\ queue' = queue)]_vars

\* C24: get called with block true and a negative timeout raises ValueError
\* and leaves the queue unchanged, whatever the queue holds and whatever
\* peek is, and it does so without waiting; with block false the timeout is
\* not looked at and no call raises ValueError.
C24_NegativeTimeoutBlocking ==
    /\ [][(NegativeTimeoutStep /\ call'.block)
            => (/\ call'.err = "ValueError"
                /\ call'.item = <<>>
                /\ queue' = queue)]_vars
    /\ [][(GetStep /\ call'.err = "ValueError")
            => (NegativeTimeoutStep /\ call'.block)]_vars
    /\ [](\A peek \in BOOLEAN : ENABLED QueueGet(TRUE, <<-1>>, peek))

\* a blocking get with timeout -1 has raised ValueError on a queue holding
\* an item, which is still there
C24_Witness ==
    /\ call.op = "get"
    /\ call.block /\ call.timeout = <<-1>>
    /\ call.err = "ValueError"
    /\ call.before = <<1>>
    /\ queue = <<1>>

\* ------------------------------------------------------------ constructors
\* the arguments the constructors are called with: the number of elements
\* of the shape, the size in bytes of an element, the bytes of a tensor, and
\* the number of slots
ShapeElems == 0..2
ItemSizes == {1, 4}
ByteCounts == 0..8
SlotCounts == 0..2

\* the bytes an allocator may give beyond the bytes asked for
RegionExtra == {0, 1}

\* Proto, lines 23-27: a dataclass whose generated __init__ stores the three
\* fields as given
ProtoNew(n, itemsize, nbytes) ==
    /\ call' = [op |-> "Proto", shape |-> n, itemsize |-> itemsize,
                nbytes |-> nbytes, err |-> "none"]
    /\ UNCHANGED <<chanVars, sendVars, ackVars, recvVars, reqVars, histVars>>
    /\ UNCHANGED <<lifeVars, thr2Vars, selVars>>

\* CspSendPort.__init__, lines 36-61 (CspRecvPort.__init__, lines 173-198),
\* called with the Proto just made: the fields of the Proto and size are
\* stored as given
PortNew(kind, size) ==
    /\ call.op = "Proto"
    /\ call' = [op |-> kind, shape |-> call.shape, itemsize |-> call.itemsize,
                nbytes |-> call.nbytes, size |-> size, err |-> "none"]
    /\ UNCHANGED <<chanVars, sendVars, ackVars, recvVars, reqVars, histVars>>
    /\ UNCHANGED <<lifeVars, thr2Vars, selVars>>

\* PyPyChannel.__init__, lines 335-342: nbytes is computed from shape and
\* dtype, the region of nbytes * size bytes is asked from the allocator of
\* the message infrastructure, and the Proto and both ports are made of
\* them. The allocator is not part of the channel: asked for no byte at
\* all it may give a region or raise, and the region it gives has the bytes
\* asked for or more (a rounded size)
ChannelNew(n, itemsize, size) ==
    /\ \E allocated \in IF n * itemsize * size > 0 THEN {TRUE} ELSE BOOLEAN,
          extra \in RegionExtra :
          call' = [op |-> "Channel", shape |-> n, itemsize |-> itemsize,
                   nbytes |-> n * itemsize, size |-> size,
                   region |-> IF allocated THEN n * itemsize * size + extra ELSE 0,
                   err |-> IF allocated THEN "none" ELSE "ValueError"]
    /\ UNCHANGED <<chanVars, sendVars, ackVars, recvVars, reqVars, histVars>>
    /\ UNCHANGED <<lifeVars, thr2Vars, selVars>>

\* Protos, ports and channels made of every combination of the arguments
NextNew ==
    \/ \E n \in ShapeElems, itemsize \in ItemSizes, nbytes \in ByteCounts :
          ProtoNew(n, itemsize, nbytes)
    \/ \E kind \in {"SendPort", "RecvPort"}, size \in SlotCounts :
          PortNew(kind, size)
    \/ \E n \in ShapeElems, itemsize \in ItemSizes, size \in SlotCounts :
          ChannelNew(n, itemsize, size)

SpecNew == InitNew /\ [][NextNew]_vars

\* the last call made a Proto, a port or a channel
Constructed ==
    call.op \in {"Proto", "SendPort", "RecvPort", "Channel"} /\ call.err = "none"

\* C25: construction validation. A Proto, a port or a channel exists only
\* with nbytes >= 1, nbytes equal to the number of elements of the shape
\* times the element size and, for a port or a channel, size >= 1: a call
\* with other parameters raises.
C25_ConstructionValidated ==
    Constructed => (/\ call.nbytes >= 1
                    /\ call.nbytes = call.shape * call.itemsize
                    /\ call.op # "Proto" => call.size >= 1)

\* C33: the sender's bounded semaphore is never over-released. In a channel
\* started once the number of available permits stays within 0..size, also
\* together with the permits a send and the probes of the application (its
\* own or the one select makes) and of the ack-drain thread hold at the
\* moment; whoever is about to release finds the count below size, so no
\* release raises.
C33_PermitNeverOverReleased ==
    /\ sem \in 0..Size
    /\ sem + Unit(SendHolds) + ProbeHolds + Unit(selpc = "probe_release") <= Size
    /\ apc \in {"probe_release", "release"} => sem < Size
    /\ spc = "probe" => sem < Size
    /\ selpc = "probe_release" => sem < Size
    /\ serr # "ValueError"

\* the application's probe and the ack-drain thread are both about to
\* release, each a permit of its own
C33_Witness ==
    /\ spc = "probe"
    /\ apc = "release"
    /\ sem + 2 = Size

\* ------------------------------------------------------------ the ring view
\* start, lines 85 and 222: the first byte of the slice taken for slot i
SlotStart(nbytes, i) == nbytes * i

\* variant of SlotStop: the index is taken for the byte offset
SlotStop_Count(nbytes, i) == i + 1

\* start, lines 85 and 222: the byte after the last one of the slice taken
\* for slot i
SlotStop(nbytes, i) == nbytes * (i + 1)

\* the bytes of the slice buf[a:b] of a region of len bytes: a slice is cut
\* at the end of the buffer
SliceBytes(len, a, b) == {k \in a..(b - 1) : k < len}

\* the bytes of the array np.ndarray makes over a slice (lines 82-86): the
\* first n * itemsize bytes of it; a slice with fewer bytes raises TypeError,
\* for which the empty sequence stands
ViewBytes(slice, n, itemsize) ==
    IF Cardinality(slice) < n * itemsize
    THEN <<>>
    ELSE <<{k \in slice : Cardinality({j \in slice : j < k}) < n * itemsize}>>

\* the list self._array start builds for a port of the channel c, lines
\* 81-88 and 218-225: one array per i in range(size)
SlotViews(c) ==
    [i \in 0..(c.size - 1) |->
        ViewBytes(SliceBytes(c.region, SlotStart(c.nbytes, i), SlotStop(c.nbytes, i)),
                  c.shape, c.itemsize)]

\* start of a port of the channel just made by the factory, lines 81-88 and
\* 218-225: the arrays over the region are built, or np.ndarray raises
RingStart(kind) ==
    /\ call.op \in {"Channel", "Started"}
    /\ call.err = "none"
    /\ call.op = "Started" => call[kind] = <<>>
    /\ LET views == SlotViews(call)
           failed == \E i \in DOMAIN views : views[i] = <<>>
           made == IF failed THEN <<>> ELSE <<[i \in DOMAIN views |-> views[i][1]]>>
       IN  call' = [op |-> "Started", shape |-> call.shape,
                    itemsize |-> call.itemsize, nbytes |-> call.nbytes,
                    size |-> call.size, region |-> call.region,
                    send |-> IF kind = "send" THEN made
                             ELSE IF call.op = "Started" THEN call.send ELSE <<>>,
                    recv |-> IF kind = "recv" THEN made
                             ELSE IF call.op = "Started" THEN call.recv ELSE <<>>,
                    err |-> IF failed THEN "TypeError" ELSE "none"]
    /\ UNCHANGED <<chanVars, sendVars, ackVars, recvVars, reqVars, histVars>>
    /\ UNCHANGED <<lifeVars, thr2Vars, selVars>>

\* channels made by the factory of every combination of the arguments, and
\* their ports started in either order
NextRing ==
    \/ \E n \in ShapeElems, itemsize \in ItemSizes, size \in SlotCounts :
          ChannelNew(n, itemsize, size)
    \/ \E kind \in {"send", "recv"} : RingStart(kind)

SpecRing == InitNew /\ [][NextRing]_vars

\* the slots of the started port kind of the channel in call
Ring(kind) == call[kind][1]

\* C31: ring layout. In a channel made by the factory, slot i of a started
\* port covers exactly the bytes i*nbytes .. (i+1)*nbytes - 1 of the
\* region, for every i below size; slots of distinct indices are disjoint,
\* every slot lies within the first nbytes*size bytes, slot i of the
\* SendPort and slot i of the RecvPort are the same bytes, and start does
\* not raise.
C31_RingLayout ==
    call.op = "Started" =>
        /\ call.err = "none"
        /\ \A kind \in {"send", "recv"} :
              call[kind] # <<>> =>
                 /\ DOMAIN Ring(kind) = 0..(call.size - 1)
                 /\ \A i \in 0..(call.size - 1) :
                       /\ Ring(kind)[i] = (i * call.nbytes)..((i + 1) * call.nbytes - 1)
                       /\ Ring(kind)[i] \subseteq 0..(call.nbytes * call.size - 1)
                       /\ \A j \in 0..(call.size - 1) :
                             j # i => Ring(kind)[i] \cap Ring(kind)[j] = {}
        /\ (call.send # <<>> /\ call.recv # <<>>) => Ring("send") = Ring("recv")

\* both ports of a channel of two slots of 8 bytes are started, over a
\* region the allocator rounded up
C31_Witness ==
    /\ call.op = "Started"
    /\ call.send # <<>> /\ call.recv # <<>>
    /\ call.size = 2 /\ call.nbytes = 8
    /\ call.region = 17
    /\ Ring("recv")[1] = 8..15

\* C32: a drain thread never invokes an unset observer. Whatever select
\* does between the test of the observer and its call, the call finds the
\* observer set, and no drain thread ends by an exception: it leaves its
\* loop only because done was set or EOF was reported.
C32_NeverCallsNone ==
    /\ [][(apc = "call" /\ apc' # apc) => (sobs /\ apc' = "lock")]_vars
    /\ [][(qpc = "call" /\ qpc' # qpc) => (robs /\ qpc' = "lock")]_vars
    /\ [](apc # "crashed" /\ qpc # "crashed")

\* ------------------------------------------------------------------ progress
\* recv called by a receiver that issues as many recvs as the sender sends
RecvCallN ==
    /\ Len(rcvd) < MaxSends
    /\ RecvCall

\* the steps of each of the four threads of a channel used without selector
SenderThread == SendCall \/ SendAcquire \/ SendWrite \/ SendAdvance \/ SendRelease
ReceiverThread == RecvCallN \/ RecvGet \/ RecvCopy \/ RecvAdvance \/ RecvRelease
AckThread == AckAcquire \/ AckRuns
ReqThread == ReqAcquire \/ ReqRuns

\* the started channel whose sender issues MaxSends sends and whose receiver
\* issues MaxSends recvs, each of the four threads scheduled again and again
NextProg == SenderThread \/ ReceiverThread \/ AckThread \/ ReqThread

SpecProg ==
    /\ Init
    /\ [][NextProg]_vars
    /\ WF_vars(SenderThread)
    /\ WF_vars(ReceiverThread)
    /\ WF_vars(AckThread)
    /\ WF_vars(ReqThread)

\* every send and every recv the application issues has completed
AllDone ==
    /\ Len(sent) = MaxSends
    /\ Len(rcvd) = MaxSends
    /\ spc = "idle"
    /\ rpc = "idle"

\* C34: progress without selector. With both ports started, no join and no
\* EOF, a sender issuing MaxSends sends and a receiver issuing MaxSends
\* recvs, under weak fairness of the four threads every send and every recv
\* eventually completes, and in no state before that all threads are
\* blocked.
C34_Progress ==
    /\ <>AllDone
    /\ [](~AllDone => ENABLED NextProg)

\* all sends and recvs completed, more of them than the ring has slots, and
\* both drain threads are back at their acquire with nothing left to drain
C34_Witness ==
    /\ AllDone
    /\ MaxSends > Size
    /\ rcvd = sent
    /\ apc = "wait" /\ qpc = "wait"
    /\ req = 0 /\ ack = 0
    /\ sem = Size

\* ---------------------------------------------------------------- readiness
\* the port whose probe ended the scan of select (lines 306-307): the one
\* whose action line 309 invokes
SelChosen == sellist[Len(selscan)]

\* select is between the successful probe and the return of the action
SelDecided == selpc \in {"unset", "action"}

\* C35: readiness is stable for the selecting thread. From the probe that
\* found a port ready to the invocation of its action, a chosen RecvPort
\* holds at least one token in its queue, and a chosen SendPort has at least
\* one permit, available or held for a moment by the probe of the ack-drain
\* thread, which gives it back without any recv of the peer.
C35_ReadinessStable ==
    SelDecided =>
        /\ SelChosen = "recv" => Len(queue) > 0
        /\ SelChosen = "send" => sem + Unit(apc = "probe_release") >= 1

\* select invokes the action of the SendPort while the only permit is held
\* by the probe of the ack-drain thread
C35_Witness ==
    /\ selpc = "action"
    /\ SelChosen = "send"
    /\ sem = 0
    /\ apc = "probe_release"
====
